---- MODULE Spec2Model ----
(***************************************************************************)
(* Verification model of the HLV abilities: the Lightning invoice ability, *)
(* the Hedera HTLC (Lock Step) ability, the Lightning payment (Settlement  *)
(* Step) ability, and the HTLC ledger contract they talk to.               *)
(***************************************************************************)
EXTENDS Integers, Sequences, FiniteSets, TLC

VARIABLES
    now,            \* wall clock / block timestamp, in seconds
    contracts,      \* ledger: contractId -> Lock record (HTLC_ABI `contracts`)
    lastReceipt,    \* receipt of the latest claim/refund transaction
    txs,            \* createHTLCToken transactions broadcast so far (index = txHash)
    htlcPc,         \* position of the Lock Step call
    htlcOp,         \* which Lock Step entry point is/was running
    htlcParams,     \* abilityParams of the Lock Step call
    htlcCallTime,   \* clock reading when the Lock Step call was made
    htlcTx,         \* txHash returned by contractCall in this call (0: none)
    htlcContractId, \* contractId computed by execute
    htlcBroadcasts, \* number of contractCall invocations made by this call
    htlcReturned,   \* transaction and contractId of every Success execute returned
    htlcResult,     \* value returned through succeed()/fail()
    railPaid,       \* payment hashes of the invoices the payment rail has settled
    railInFlight,   \* pay requests submitted to the rail and not yet processed
    railInvoices,   \* payment requests the rail has issued
    nwcUri,         \* NWCConnectionManager.nwcUri (process.env.NWC_URI)
    lnClient,       \* NWCConnectionManager.lnClient: URI the client was built with
    isConnected,    \* NWCConnectionManager.isConnected
    payPc,          \* position of the Settlement Step call
    payCall,        \* number of Settlement Step calls made so far
    payParams,      \* abilityParams of the Settlement Step call
    payStartTime,   \* clock reading when payInvoice was submitted
    payResult,      \* value returned through succeed()/fail()
    payInvoiceCalls,    \* number of payInvoice requests made by this call
    invPc,          \* position of the Invoice Step call
    invParams,      \* abilityParams of the Invoice Step call
    invStartTime,   \* clock reading when the Invoice Step call began
    invResult,      \* value returned through succeed()/fail()
    invCreateCalls,     \* number of invoice requests made by this call
    payPrecheckParams,  \* abilityParams of the latest Settlement precheck call
    payPrecheckTime,    \* Date.now() as that precheck call read it
    payPrecheckResult,  \* value that precheck returned through succeed()/fail()
    payPrecheckRail,    \* what the rail answered to that precheck call
    invPrecheckParams,  \* abilityParams of the latest Invoice Step precheck call
    invPrecheckResult,  \* value that precheck returned through succeed()/fail()
    verifyPc,           \* position of the verifyPreimage call
    verifyArgs,         \* the two strings verifyPreimage is called with
    verifyResult        \* the boolean verifyPreimage returned

ledgerVars == <<contracts, lastReceipt, txs>>
railVars == <<railPaid, railInFlight, railInvoices>>
nwcVars == <<nwcUri, lnClient, isConnected>>
payVars == <<payPc, payCall, payParams, payStartTime, payResult, payInvoiceCalls>>
htlcVars == <<htlcPc, htlcOp, htlcParams, htlcCallTime, htlcTx, htlcContractId,
              htlcBroadcasts, htlcReturned, htlcResult>>
invVars == <<invPc, invParams, invStartTime, invResult, invCreateCalls>>
payPrecheckVars ==
    <<payPrecheckParams, payPrecheckTime, payPrecheckResult, payPrecheckRail>>
invPrecheckVars == <<invPrecheckParams, invPrecheckResult>>
verifyVars == <<verifyPc, verifyArgs, verifyResult>>
precheckVars == <<payPrecheckVars, invPrecheckVars, verifyVars>>
lightningVars == <<railVars, nwcVars, payVars, invVars, precheckVars>>
vars == <<now, ledgerVars, htlcVars, lightningVars>>

----------------------------------------------------------------------------
(* Bounds *)

MaxTime == 2
NumPreimages == 1
MaxAmount == 1
MaxTxs == 1

----------------------------------------------------------------------------
(* Values *)

\* 32-byte secrets
Preimages == 1..NumPreimages

\* 32-byte values a party can send: the zero value, the secrets, and one
\* value that is no invoice's secret
Bytes32Values == 0..(NumPreimages + 1)

\* SHA-256 of a 32-byte value, as a digest number (injective on the modelled
\* domain: no collisions are found)
Sha256(p) == 100 + ((7 * p + 3) % 11)

Hashes == {Sha256(p) : p \in Preimages}

Amounts == 1..MaxAmount
Timelocks == 1..MaxTime

UserAddress == "0xUser"
WbtcToken == "0xWBTC"

\* the preimage slot of a Lock that has not been claimed: the zero value
EmptyPreimage == 0

NoResult == [kind |-> "none"]
NoContractId == <<>>

INVALID_TIMELOCK == "INVALID_TIMELOCK"
INVALID_PAYMENT_HASH == "INVALID_PAYMENT_HASH"
INSUFFICIENT_BALANCE == "INSUFFICIENT_BALANCE"
TRANSACTION_FAILED == "TRANSACTION_FAILED"
CONTRACT_ERROR == "CONTRACT_ERROR"

\* KNOWN_ERRORS of the HTLC ability
HtlcKnownErrors ==
    {INSUFFICIENT_BALANCE, "INSUFFICIENT_ALLOWANCE", INVALID_PAYMENT_HASH,
     INVALID_TIMELOCK, TRANSACTION_FAILED, CONTRACT_ERROR}

\* a failure without error text
HtlcFail_NoError(reason) == [kind |-> "fail", reason |-> reason]

\* fail({ error, reason }): the error text is a message string
HtlcFail(reason) == [kind |-> "fail", reason |-> reason, error |-> "error message"]

----------------------------------------------------------------------------
(* Hex strings: a string is represented by what the code inspects of it:  *)
(* whether it starts with 0x, how many characters follow, whether they    *)
(* are all hex digits, and the number they encode.                         *)

HexStr(has0x, digits, hex, val) ==
    [has0x |-> has0x, digits |-> digits, hex |-> hex, val |-> val]

\* /^0x[a-fA-F0-9]{64}$/
IsBytes32Hex(s) == s.has0x /\ s.digits = 64 /\ s.hex

\* "0x" + 64 hex digits of a digest
HashString(h) == HexStr(TRUE, 64, TRUE, h)

\* '0x' + s
Prepend0x(s) ==
    IF s.has0x
    THEN HexStr(TRUE, s.digits + 2, FALSE, s.val)
    ELSE HexStr(TRUE, s.digits, s.hex, s.val)

\* s.startsWith('0x') ? s : '0x' + s
EnsureHexPrefix(s) == IF s.has0x THEN s ELSE Prepend0x(s)

\* a string such as '0xinvalid'
MalformedHash == HexStr(TRUE, 7, FALSE, 0)

PaymentHashParams == {HashString(h) : h \in Hashes} \cup {MalformedHash}

ChainIds == {296, 999}

HtlcParamSet ==
    [paymentHash : PaymentHashParams, amount : Amounts, tokenAddress : {WbtcToken},
     timelock : Timelocks, chainId : ChainIds]

\* parameters that pass abilityParamsSchema, on a supported chain; execute
\* hands the amount on unread, so one amount stands for all
HtlcExecuteParams ==
    {p \in HtlcParamSet :
        IsBytes32Hex(p.paymentHash) /\ p.chainId = 296 /\ p.amount = MaxAmount}

NoParams == [paymentHash |-> MalformedHash, amount |-> 0, tokenAddress |-> "",
             timelock |-> 0, chainId |-> 0]

\* getHederaNetwork: throws for any chain id other than 295, 296, 297
getHederaNetworkThrows(chainId) == chainId \notin {295, 296, 297}

\* keccak256(solidityPack(sender, token, amount, paymentHash, timelock, time))
ContractId(sender, token, amount, hashlock, timelock, time) ==
    <<sender, token, amount, hashlock, timelock, time>>

----------------------------------------------------------------------------
(* The HTLC ledger contract *)

NewLock(tx) ==
    [sender |-> tx.from, tokenAddress |-> tx.tokenAddress, amount |-> tx.amount,
     hashlock |-> tx.hashlock, timelock |-> tx.timelock,
     withdrawn |-> FALSE, refunded |-> FALSE, preimage |-> EmptyPreimage]

\* Receipt of a claim/refund transaction: status 1 (success) or 0 (reverted)
Receipt(op, id, preimage, time, status) ==
    [op |-> op, id |-> id, preimage |-> preimage, time |-> time, status |-> status]

NoReceipt == Receipt("none", NoContractId, EmptyPreimage, 0, 1)

\* Faulty variants of ClaimAllowed
ClaimAllowed_IgnoresState(lock, preimage) ==
    Sha256(preimage) = lock.hashlock

ClaimAllowed_NoHashCheck(lock, preimage) ==
    /\ ~lock.withdrawn
    /\ ~lock.refunded

\* What the ledger requires of a claim
ClaimAllowed(lock, preimage) ==
    /\ ~lock.withdrawn
    /\ ~lock.refunded
    /\ Sha256(preimage) = lock.hashlock

\* Faulty variants of RefundAllowed
RefundAllowed_IgnoresWithdrawn(lock, time) ==
    /\ ~lock.refunded
    /\ time >= lock.timelock

RefundAllowed_NeverElapsed(lock, time) ==
    /\ ~lock.withdrawn
    /\ ~lock.refunded
    /\ time > MaxTime + lock.timelock

RefundAllowed_NoTimelock(lock, time) ==
    /\ ~lock.withdrawn
    /\ ~lock.refunded

\* What the ledger requires of a refund
RefundAllowed(lock, time) ==
    /\ ~lock.withdrawn
    /\ ~lock.refunded
    /\ time >= lock.timelock

\* The ledger processes a broadcast createHTLCToken transaction. `funded`
\* is whether the token transfer into the contract goes through. A
\* successful transaction carries the HTLCCreated event with the contractId.
createHTLCToken(i, funded) ==
    /\ i \in 1..Len(txs)
    /\ txs[i].status = "pending"
    /\ LET tx == txs[i]
           id == ContractId(tx.from, tx.tokenAddress, tx.amount, tx.hashlock,
                            tx.timelock, now)
       IN IF funded /\ id \notin DOMAIN contracts
          THEN /\ contracts' = contracts @@ (id :> NewLock(tx))
               /\ txs' = [txs EXCEPT ![i].status = "success", ![i].contractId = id]
          ELSE /\ contracts' = contracts
               /\ txs' = [txs EXCEPT ![i].status = "reverted"]
    /\ UNCHANGED <<now, lastReceipt, htlcVars, lightningVars>>

\* Faulty variant of claim: claiming closes when the timelock elapses
claim_UntilTimelock(id, preimage) ==
    /\ id \in DOMAIN contracts
    /\ IF ClaimAllowed(contracts[id], preimage) /\ now < contracts[id].timelock
       THEN /\ contracts' = [contracts EXCEPT ![id].withdrawn = TRUE,
                                              ![id].preimage = preimage]
            /\ lastReceipt' = Receipt("claim", id, preimage, now, 1)
       ELSE /\ contracts' = contracts
            /\ lastReceipt' = Receipt("claim", id, preimage, now, 0)
    /\ UNCHANGED <<now, txs, htlcVars, lightningVars>>

\* claim(contractId, preimage), sent by any party
claim(id, preimage) ==
    /\ id \in DOMAIN contracts
    /\ IF ClaimAllowed(contracts[id], preimage)
       THEN /\ contracts' = [contracts EXCEPT ![id].withdrawn = TRUE,
                                              ![id].preimage = preimage]
            /\ lastReceipt' = Receipt("claim", id, preimage, now, 1)
       ELSE /\ contracts' = contracts
            /\ lastReceipt' = Receipt("claim", id, preimage, now, 0)
    /\ UNCHANGED <<now, txs, htlcVars, lightningVars>>

\* refund(contractId), sent by any party
refund(id) ==
    /\ id \in DOMAIN contracts
    /\ IF RefundAllowed(contracts[id], now)
       THEN /\ contracts' = [contracts EXCEPT ![id].refunded = TRUE]
            /\ lastReceipt' = Receipt("refund", id, EmptyPreimage, now, 1)
       ELSE /\ contracts' = contracts
            /\ lastReceipt' = Receipt("refund", id, EmptyPreimage, now, 0)
    /\ UNCHANGED <<now, txs, htlcVars, lightningVars>>

\* A wallet sends createHTLCToken(paymentHash, timelock, token, amount) to
\* the contract itself
SendCreateHTLCToken(p) ==
    /\ Len(txs) < MaxTxs
    /\ txs' = Append(txs, [from |-> UserAddress,
                           hashlock |-> p.paymentHash.val,
                           timelock |-> p.timelock,
                           tokenAddress |-> p.tokenAddress,
                           amount |-> p.amount,
                           status |-> "pending",
                           contractId |-> NoContractId])
    /\ UNCHANGED <<now, contracts, lastReceipt, htlcVars, lightningVars>>

\* Time passes
Tick ==
    /\ now < MaxTime
    /\ now' = now + 1
    /\ UNCHANGED <<ledgerVars, htlcVars, lightningVars>>

----------------------------------------------------------------------------
(* Lock Step: the Hedera HTLC ability *)

HtlcIdle == htlcPc \in {"idle", "done"}

HtlcPrecheckSuccess(balance, allowance, amount) ==
    [kind |-> "success", hasAllowance |-> allowance >= amount, hasBalance |-> TRUE,
     availableBalance |-> balance]

\* the parameters pass the tests that precheck makes before it creates the
\* provider and reads the ledger
HtlcPrecheckReachesLedger(p, time) ==
    /\ ~getHederaNetworkThrows(p.chainId)
    /\ IsBytes32Hex(p.paymentHash)
    /\ p.timelock > time

\* a precheck that tests the timelock before the format of the hash
HtlcPrecheckResult_TimelockBeforeHash(p, time, balance, allowance, rpc) ==
    IF getHederaNetworkThrows(p.chainId) THEN HtlcFail(CONTRACT_ERROR)
    ELSE IF p.timelock <= time THEN HtlcFail(INVALID_TIMELOCK)
    ELSE IF ~IsBytes32Hex(p.paymentHash) THEN HtlcFail(INVALID_PAYMENT_HASH)
    ELSE IF rpc = "balanceOfThrows" THEN HtlcFail(CONTRACT_ERROR)
    ELSE IF balance < p.amount THEN HtlcFail(INSUFFICIENT_BALANCE)
    ELSE IF rpc = "estimateGasThrows" THEN HtlcFail(CONTRACT_ERROR)
    ELSE HtlcPrecheckSuccess(balance, allowance, p.amount)

\* a precheck that treats a missing allowance like a missing balance
HtlcPrecheckResult_AllowanceFatal(p, time, balance, allowance, rpc) ==
    IF getHederaNetworkThrows(p.chainId) THEN HtlcFail(CONTRACT_ERROR)
    ELSE IF ~IsBytes32Hex(p.paymentHash) THEN HtlcFail(INVALID_PAYMENT_HASH)
    ELSE IF p.timelock <= time THEN HtlcFail(INVALID_TIMELOCK)
    ELSE IF rpc = "balanceOfThrows" THEN HtlcFail(CONTRACT_ERROR)
    ELSE IF balance < p.amount THEN HtlcFail(INSUFFICIENT_BALANCE)
    ELSE IF allowance < p.amount THEN HtlcFail("INSUFFICIENT_ALLOWANCE")
    ELSE IF rpc = "estimateGasThrows" THEN HtlcFail(CONTRACT_ERROR)
    ELSE HtlcPrecheckSuccess(balance, allowance, p.amount)

\* precheck's result; rpc tells which ledger read, if any, throws
HtlcPrecheckResult(p, time, balance, allowance, rpc) ==
    IF getHederaNetworkThrows(p.chainId) THEN HtlcFail(CONTRACT_ERROR)
    ELSE IF ~IsBytes32Hex(p.paymentHash) THEN HtlcFail(INVALID_PAYMENT_HASH)
    ELSE IF p.timelock <= time THEN HtlcFail(INVALID_TIMELOCK)
    ELSE IF rpc = "balanceOfThrows" THEN HtlcFail(CONTRACT_ERROR)
    ELSE IF balance < p.amount THEN HtlcFail(INSUFFICIENT_BALANCE)
    ELSE IF rpc = "estimateGasThrows" THEN HtlcFail(CONTRACT_ERROR)
    ELSE HtlcPrecheckSuccess(balance, allowance, p.amount)

HtlcPrecheck(p, balance, allowance, rpc) ==
    /\ HtlcIdle
    /\ htlcPc' = "done"
    /\ htlcOp' = "precheck"
    /\ htlcParams' = p
    /\ htlcCallTime' = now
    /\ htlcTx' = 0
    /\ htlcContractId' = NoContractId
    /\ htlcBroadcasts' = 0
    /\ htlcReturned' = htlcReturned
    /\ htlcResult' = HtlcPrecheckResult(p, now, balance, allowance, rpc)
    /\ UNCHANGED <<now, ledgerVars, lightningVars>>

\* execute up to its first await; encodeFunctionData throws on a value that
\* is not a bytes32. cap bounds the number of transactions of a run.
HtlcExecuteStartWithin(p, cap) ==
    /\ HtlcIdle
    /\ Len(txs) < cap
    /\ htlcOp' = "execute"
    /\ htlcParams' = p
    /\ htlcCallTime' = now
    /\ htlcTx' = 0
    /\ htlcContractId' = NoContractId
    /\ htlcBroadcasts' = 0
    /\ htlcReturned' = htlcReturned
    /\ IF IsBytes32Hex(p.paymentHash)
       THEN htlcPc' = "estimateGas" /\ htlcResult' = NoResult
       ELSE htlcPc' = "done" /\ htlcResult' = HtlcFail(TRANSACTION_FAILED)
    /\ UNCHANGED <<now, ledgerVars, lightningVars>>

HtlcExecuteStart(p) == HtlcExecuteStartWithin(p, MaxTxs)

\* getTransactionCount, getGasPrice, estimateGas
HtlcEstimateGas(ok) ==
    /\ htlcPc = "estimateGas"
    /\ IF ok
       THEN htlcPc' = "contractCall" /\ htlcResult' = htlcResult
       ELSE htlcPc' = "done" /\ htlcResult' = HtlcFail(TRANSACTION_FAILED)
    /\ UNCHANGED <<now, ledgerVars, htlcOp, htlcParams, htlcCallTime, htlcTx,
                   htlcContractId, htlcBroadcasts, htlcReturned, lightningVars>>

\* laUtils.transaction.handler.contractCall signs and broadcasts; the
\* contractId is computed from the clock right after it returns
HtlcContractCall(ok) ==
    /\ htlcPc = "contractCall"
    /\ IF ok
       THEN /\ txs' = Append(txs, [from |-> UserAddress,
                                    hashlock |-> htlcParams.paymentHash.val,
                                    timelock |-> htlcParams.timelock,
                                    tokenAddress |-> htlcParams.tokenAddress,
                                    amount |-> htlcParams.amount,
                                    status |-> "pending",
                                    contractId |-> NoContractId])
            /\ htlcTx' = Len(txs) + 1
            /\ htlcBroadcasts' = htlcBroadcasts + 1
            /\ htlcContractId' =
                   ContractId(UserAddress, htlcParams.tokenAddress, htlcParams.amount,
                              htlcParams.paymentHash.val, htlcParams.timelock, now)
            /\ htlcPc' = "waitForTransaction"
            /\ htlcResult' = htlcResult
       ELSE /\ htlcPc' = "done"
            /\ htlcResult' = HtlcFail(TRANSACTION_FAILED)
            /\ UNCHANGED <<txs, htlcTx, htlcBroadcasts, htlcContractId>>
    /\ UNCHANGED <<now, contracts, lastReceipt, htlcOp, htlcParams, htlcCallTime,
                   htlcReturned, lightningVars>>

HtlcExecuteSuccess ==
    [kind |-> "success", contractId |-> htlcContractId, txHash |-> htlcTx,
     paymentHash |-> htlcParams.paymentHash, amount |-> htlcParams.amount,
     timelock |-> htlcParams.timelock]

\* Faulty variant of HtlcWaitForTransaction: the receipt status is not inspected
HtlcWaitForTransaction_IgnoresStatus(rpcThrows) ==
    /\ htlcPc = "waitForTransaction"
    /\ rpcThrows \/ txs[htlcTx].status # "pending"
    /\ htlcPc' = "done"
    /\ htlcResult' = IF ~rpcThrows
                     THEN [kind |-> "success", contractId |-> htlcContractId,
                           txHash |-> htlcTx, paymentHash |-> htlcParams.paymentHash,
                           amount |-> htlcParams.amount, timelock |-> htlcParams.timelock]
                     ELSE HtlcFail(TRANSACTION_FAILED)
    /\ htlcReturned' = IF ~rpcThrows
                       THEN htlcReturned \cup {[tx |-> htlcTx, contractId |-> htlcContractId]}
                       ELSE htlcReturned
    /\ UNCHANGED <<now, ledgerVars, htlcOp, htlcParams, htlcCallTime, htlcTx,
                   htlcContractId, htlcBroadcasts, lightningVars>>

\* an execute that does not wait for the transaction to be mined
HtlcWaitForTransaction_NoWait(rpcThrows) ==
    /\ htlcPc = "waitForTransaction"
    /\ htlcPc' = "done"
    /\ htlcResult' = IF ~rpcThrows /\ txs[htlcTx].status # "reverted"
                     THEN HtlcExecuteSuccess
                     ELSE HtlcFail(TRANSACTION_FAILED)
    /\ htlcReturned' = IF ~rpcThrows /\ txs[htlcTx].status # "reverted"
                       THEN htlcReturned \cup {[tx |-> htlcTx, contractId |-> htlcContractId]}
                       ELSE htlcReturned
    /\ UNCHANGED <<now, ledgerVars, htlcOp, htlcParams, htlcCallTime, htlcTx,
                   htlcContractId, htlcBroadcasts, lightningVars>>

\* provider.waitForTransaction(txHash, 1) returns once the transaction is
\* mined; rpcThrows: the wait itself fails or hands back no receipt
HtlcWaitForTransaction(rpcThrows) ==
    /\ htlcPc = "waitForTransaction"
    /\ rpcThrows \/ txs[htlcTx].status # "pending"
    /\ htlcPc' = "done"
    /\ htlcResult' = IF ~rpcThrows /\ txs[htlcTx].status = "success"
                     THEN HtlcExecuteSuccess
                     ELSE HtlcFail(TRANSACTION_FAILED)
    /\ htlcReturned' = IF ~rpcThrows /\ txs[htlcTx].status = "success"
                       THEN htlcReturned \cup {[tx |-> htlcTx, contractId |-> htlcContractId]}
                       ELSE htlcReturned
    /\ UNCHANGED <<now, ledgerVars, htlcOp, htlcParams, htlcCallTime, htlcTx,
                   htlcContractId, htlcBroadcasts, lightningVars>>

\* execute has returned Success
HtlcExecuteSucceeded == htlcOp = "execute" /\ htlcResult.kind = "success"

----------------------------------------------------------------------------
(* The payment rail and BOLT11 invoices *)

\* Bound on the number of Settlement Step calls
MaxPayCalls == 2

\* A BOLT11 payment request, by what decoding it yields: whether it decodes
\* at all, its payment hash, its amount (0: none) and its expiry date as a
\* clock reading (0: none)
Bolt11(decodable, hash, satoshi, expiry) ==
    [decodable |-> decodable, paymentHash |-> hash, satoshi |-> satoshi,
     expiry |-> expiry]

Undecodable == Bolt11(FALSE, 0, 0, 0)

PaymentRequests ==
    {Bolt11(TRUE, h, sat, exp) : h \in Hashes, sat \in 0..MaxAmount, exp \in 0..MaxTime}
        \cup {Undecodable}

\* Invoice.paymentHash: 64 hex digits, no 0x prefix
InvoicePaymentHash(pr) == HexStr(FALSE, 64, TRUE, pr.paymentHash)

\* string length
StrLen(s) == s.digits + (IF s.has0x THEN 2 ELSE 0)

\* a 32-byte value as 64 hex digits
PreimageString(p) == HexStr(FALSE, 64, TRUE, p)

\* no preimage in the response
MissingPreimage == HexStr(FALSE, 0, TRUE, 0)

\* 32 hex characters (16 bytes)
ShortPreimage == HexStr(FALSE, 32, TRUE, 0)

\* 64 characters, not all of them hex digits
NonHexPreimage == HexStr(FALSE, 64, FALSE, 0)

\* what a pay_invoice response can carry as preimage
RailPreimages ==
    {PreimageString(p) : p \in Bytes32Values}
        \cup {MissingPreimage, ShortPreimage, NonHexPreimage}

\* Outcomes of the rail's pay operation: whether the invoice gets settled,
\* and what the caller is told ("error": the call throws). The preimage of
\* an invoice is told only when the invoice is settled.
RailOutcomes(hash) ==
    {o \in [settles : BOOLEAN, ok : BOOLEAN, preimage : RailPreimages] :
        /\ (~o.ok => o.preimage = MissingPreimage)
        /\ ((o.ok /\ StrLen(o.preimage) = 64 /\ Sha256(o.preimage.val) = hash)
               => o.settles)}

NoUri == "none"
NwcUris == {NoUri, "nostr+walletconnect://A"}

PAYMENT_FAILED == "PAYMENT_FAILED"

PayFail(message, paymentHash) ==
    [kind |-> "fail", reason |-> PAYMENT_FAILED, error |-> message,
     paymentHash |-> paymentHash]

\* expectedAmountSat as a caller can supply it: 0 stands for a value that
\* is not supplied; one value exceeds every invoice amount
ExpectedAmounts == 0..(MaxAmount + 1)

\* timeoutSeconds: 0 stands for a value that is not set
PayParamSet ==
    [paymentRequest : PaymentRequests, timeoutSeconds : {0, 1}, nwcUri : NwcUris,
     expectedAmountSat : ExpectedAmounts]

NoPayParams == [paymentRequest |-> Undecodable, timeoutSeconds |-> 0, nwcUri |-> NoUri,
                expectedAmountSat |-> 0]

\* execute reads neither the invoice's expiry date nor expectedAmountSat, so
\* one value of each stands for all
PayExecuteParams ==
    {p \in PayParamSet : p.expectedAmountSat = 0 /\ p.paymentRequest.expiry = 0}

----------------------------------------------------------------------------
(* Settlement Step: the Lightning payment ability *)

PayIdle == payPc \in {"idle", "done"}

\* nwcManager.payInvoice(paymentRequest): the request goes to the rail
PaySubmit(call, pr, made) ==
    /\ railInFlight' = railInFlight \cup {[call |-> call, hash |-> pr.paymentHash]}
    /\ payStartTime' = now
    /\ payPc' = "payInvoice"
    /\ payResult' = NoResult
    /\ payInvoiceCalls' = made + 1

\* execute up to its first suspension: decode the invoice, then
\* NWCConnectionManager.connect
PayExecuteStart(p) ==
    /\ PayIdle
    /\ payCall < MaxPayCalls
    /\ payCall' = payCall + 1
    /\ payParams' = p
    /\ LET uri == IF p.nwcUri # NoUri THEN p.nwcUri ELSE nwcUri
       IN IF ~p.paymentRequest.decodable
          THEN /\ payPc' = "done"
               /\ payResult' = PayFail("decode", "undefined")
               /\ payInvoiceCalls' = 0
               /\ UNCHANGED <<payStartTime, railInFlight, lnClient, isConnected>>
          ELSE IF uri = NoUri
          THEN /\ payPc' = "done"
               /\ payResult' = PayFail("NWC URI not provided",
                                       InvoicePaymentHash(p.paymentRequest))
               /\ payInvoiceCalls' = 0
               /\ UNCHANGED <<payStartTime, railInFlight, lnClient, isConnected>>
          ELSE IF lnClient # NoUri /\ isConnected
          THEN /\ PaySubmit(payCall + 1, p.paymentRequest, 0)
               /\ UNCHANGED <<lnClient, isConnected>>
          ELSE /\ lnClient' = uri
               /\ payPc' = "getInfo"
               /\ payResult' = NoResult
               /\ payInvoiceCalls' = 0
               /\ UNCHANGED <<payStartTime, railInFlight, isConnected>>
    /\ UNCHANGED <<now, ledgerVars, htlcVars, railPaid, railInvoices, nwcUri, invVars,
                   precheckVars>>

\* connect's getInfo returns or throws
PayGetInfo(ok) ==
    /\ payPc = "getInfo"
    /\ IF ok
       THEN /\ isConnected' = TRUE
            /\ PaySubmit(payCall, payParams.paymentRequest, payInvoiceCalls)
       ELSE /\ isConnected' = FALSE
            /\ payPc' = "done"
            /\ payResult' = PayFail("NWC connection failed",
                                    InvoicePaymentHash(payParams.paymentRequest))
            /\ UNCHANGED <<payStartTime, railInFlight, payInvoiceCalls>>
    /\ UNCHANGED <<now, ledgerVars, htlcVars, railPaid, railInvoices, nwcUri, lnClient,
                   payCall, payParams, invVars, precheckVars>>

PayRequest == [call |-> payCall, hash |-> payParams.paymentRequest.paymentHash]

PayDeadline == payStartTime + payParams.timeoutSeconds

\* what execute returns for a pay response
PayExecuteResult(pr, response) ==
    IF ~response.ok
    THEN PayFail("rail error", InvoicePaymentHash(pr))
    ELSE IF response.preimage = MissingPreimage \/ StrLen(response.preimage) # 64
    THEN PayFail("Invalid preimage received", InvoicePaymentHash(pr))
    ELSE [kind |-> "success", preimage |-> response.preimage,
          paymentHash |-> InvoicePaymentHash(pr), amountSat |-> pr.satoshi,
          feeSat |-> 0, totalSat |-> pr.satoshi, status |-> "SUCCEEDED"]

\* the rail answers the pay request while execute is waiting for it
PayInvoiceResponds(o) ==
    /\ payPc = "payInvoice"
    /\ PayRequest \in railInFlight
    /\ payParams.timeoutSeconds = 0 \/ now <= PayDeadline
    /\ o \in RailOutcomes(PayRequest.hash)
    /\ railInFlight' = railInFlight \ {PayRequest}
    /\ railPaid' = IF o.settles THEN railPaid \cup {PayRequest.hash} ELSE railPaid
    /\ payPc' = "done"
    /\ payResult' = PayExecuteResult(payParams.paymentRequest, o)
    /\ UNCHANGED <<now, ledgerVars, htlcVars, railInvoices, nwcVars, payCall, payParams,
                   payStartTime, payInvoiceCalls, invVars, precheckVars>>

\* a timer that is armed whether or not timeoutSeconds is set
PayTimeout_AlwaysArmed ==
    /\ payPc = "payInvoice"
    /\ now >= PayDeadline
    /\ payPc' = "done"
    /\ payResult' = PayFail("Payment timeout", InvoicePaymentHash(payParams.paymentRequest))
    /\ UNCHANGED <<now, ledgerVars, htlcVars, railVars, nwcVars, payCall, payParams,
                   payStartTime, payInvoiceCalls, invVars, precheckVars>>

\* a timer whose expiry withdraws the pay request from the rail
PayTimeout_Cancels ==
    /\ payPc = "payInvoice"
    /\ payParams.timeoutSeconds # 0
    /\ now >= PayDeadline
    /\ payPc' = "done"
    /\ payResult' = PayFail("Payment timeout", InvoicePaymentHash(payParams.paymentRequest))
    /\ railInFlight' = railInFlight \ {PayRequest}
    /\ UNCHANGED <<now, ledgerVars, htlcVars, railPaid, railInvoices, nwcVars, payCall,
                   payParams, payStartTime, payInvoiceCalls, invVars, precheckVars>>

\* a timer whose expiry is reported like a failure of the rail
PayTimeout_ReportedAsRailError ==
    /\ payPc = "payInvoice"
    /\ payParams.timeoutSeconds # 0
    /\ now >= PayDeadline
    /\ payPc' = "done"
    /\ payResult' = PayFail("rail error", InvoicePaymentHash(payParams.paymentRequest))
    /\ UNCHANGED <<now, ledgerVars, htlcVars, railVars, nwcVars, payCall, payParams,
                   payStartTime, payInvoiceCalls, invVars, precheckVars>>

\* the timer of timeoutSeconds wins the race
PayTimeout ==
    /\ payPc = "payInvoice"
    /\ payParams.timeoutSeconds # 0
    /\ now >= PayDeadline
    /\ payPc' = "done"
    /\ payResult' = PayFail("Payment timeout", InvoicePaymentHash(payParams.paymentRequest))
    /\ UNCHANGED <<now, ledgerVars, htlcVars, railVars, nwcVars, payCall, payParams,
                   payStartTime, payInvoiceCalls, invVars, precheckVars>>

\* the rail processes a pay request whose caller no longer waits for it
RailLateOutcome(req, settles) ==
    /\ req \in railInFlight
    /\ ~(payPc = "payInvoice" /\ req = PayRequest)
    /\ railInFlight' = railInFlight \ {req}
    /\ railPaid' = IF settles THEN railPaid \cup {req.hash} ELSE railPaid
    /\ UNCHANGED <<now, ledgerVars, htlcVars, railInvoices, nwcVars, payVars, invVars,
                   precheckVars>>

----------------------------------------------------------------------------
(* Invoice Validation: the Lightning payment ability's precheck *)

INVALID_INVOICE == "INVALID_INVOICE"
INVOICE_EXPIRED == "INVOICE_EXPIRED"
AMOUNT_MISMATCH == "AMOUNT_MISMATCH"
INSUFFICIENT_LIQUIDITY == "INSUFFICIENT_LIQUIDITY"
NO_ROUTE_FOUND == "NO_ROUTE_FOUND"

\* KNOWN_ERRORS of the payment ability
PayKnownErrors ==
    {INVALID_INVOICE, PAYMENT_FAILED, INVOICE_EXPIRED, AMOUNT_MISMATCH,
     INSUFFICIENT_LIQUIDITY, NO_ROUTE_FOUND}

PayPrecheckParamSet ==
    [paymentRequest : PaymentRequests, expectedAmountSat : ExpectedAmounts,
     nwcUri : NwcUris]

NoPayPrecheckParams ==
    [paymentRequest |-> Undecodable, expectedAmountSat |-> 0, nwcUri |-> NoUri]

\* The rail's part in a precheck call: whether precheck got as far as the
\* liquidity check, whether connect returned, whether getBalance returned,
\* and the balance it returned (0 when it did not)
RailAnswer(asked, connected, balanceRead, balance) ==
    [asked |-> asked, connected |-> connected, balanceRead |-> balanceRead,
     balance |-> IF balanceRead THEN balance ELSE 0]

RailNotAsked == RailAnswer(FALSE, FALSE, FALSE, 0)

\* what the rail can do when precheck asks it for the balance
RailAnswers ==
    {RailAnswer(TRUE, FALSE, FALSE, 0), RailAnswer(TRUE, TRUE, FALSE, 0)}
        \cup {RailAnswer(TRUE, TRUE, TRUE, b) : b \in 0..MaxAmount}

PayPrecheckFail(reason, message) ==
    [kind |-> "fail", reason |-> reason, error |-> message]

\* Math.ceil(amountSat * 0.001)
EstimatedFee(amountSat) == (amountSat + 999) \div 1000

\* the value precheck hands to succeed(); availableLiquidity is undefined
\* when the liquidity check did not complete
PayPrecheckSuccess(pr, checked, balance) ==
    LET base == [kind |-> "success", invoiceValid |-> TRUE,
                 paymentHash |-> InvoicePaymentHash(pr), amountSat |-> pr.satoshi,
                 expiresAt |-> pr.expiry, estimatedFee |-> EstimatedFee(pr.satoshi)]
    IN IF checked
       THEN [f \in DOMAIN base \cup {"availableLiquidity"} |->
                IF f = "availableLiquidity" THEN balance ELSE base[f]]
       ELSE base

\* the invoice passes the local checks and precheck goes on to the rail
PayPrecheckReachesRail(p, time) ==
    LET pr == p.paymentRequest
    IN /\ pr.decodable
       /\ ~(pr.expiry # 0 /\ pr.expiry < time)
       /\ ~(p.expectedAmountSat # 0 /\ pr.satoshi # p.expectedAmountSat)
       /\ pr.satoshi # 0

\* precheck without the comparison with expectedAmountSat
PayPrecheckResult_NoAmountCheck(p, time, checked, balance) ==
    LET pr == p.paymentRequest
        amountSat == pr.satoshi
        expiresAt == pr.expiry
    IN IF ~pr.decodable
       THEN PayPrecheckFail(INVALID_INVOICE, "Failed to decode Lightning invoice")
       ELSE IF expiresAt # 0 /\ expiresAt < time
       THEN PayPrecheckFail(INVOICE_EXPIRED, "Invoice expired")
       ELSE IF amountSat = 0
       THEN PayPrecheckFail(INVALID_INVOICE, "Invoice does not specify an amount")
       ELSE IF checked /\ amountSat > balance
       THEN PayPrecheckFail(INSUFFICIENT_LIQUIDITY, "Insufficient Lightning liquidity")
       ELSE PayPrecheckSuccess(pr, checked, balance)

\* precheck that lets an invoice without amount through
PayPrecheckResult_AllowsNoAmount(p, time, checked, balance) ==
    LET pr == p.paymentRequest
        amountSat == pr.satoshi
        expiresAt == pr.expiry
    IN IF ~pr.decodable
       THEN PayPrecheckFail(INVALID_INVOICE, "Failed to decode Lightning invoice")
       ELSE IF expiresAt # 0 /\ expiresAt < time
       THEN PayPrecheckFail(INVOICE_EXPIRED, "Invoice expired")
       ELSE IF p.expectedAmountSat # 0 /\ amountSat # p.expectedAmountSat
       THEN PayPrecheckFail(AMOUNT_MISMATCH,
                            "Invoice amount does not match expected amount")
       ELSE IF checked /\ amountSat > balance
       THEN PayPrecheckFail(INSUFFICIENT_LIQUIDITY, "Insufficient Lightning liquidity")
       ELSE PayPrecheckSuccess(pr, checked, balance)

\* precheck without the expiry check
PayPrecheckResult_NoExpiryCheck(p, time, checked, balance) ==
    LET pr == p.paymentRequest
        amountSat == pr.satoshi
        expiresAt == pr.expiry
    IN IF ~pr.decodable
       THEN PayPrecheckFail(INVALID_INVOICE, "Failed to decode Lightning invoice")
       ELSE IF p.expectedAmountSat # 0 /\ amountSat # p.expectedAmountSat
       THEN PayPrecheckFail(AMOUNT_MISMATCH,
                            "Invoice amount does not match expected amount")
       ELSE IF amountSat = 0
       THEN PayPrecheckFail(INVALID_INVOICE, "Invoice does not specify an amount")
       ELSE IF checked /\ amountSat > balance
       THEN PayPrecheckFail(INSUFFICIENT_LIQUIDITY, "Insufficient Lightning liquidity")
       ELSE PayPrecheckSuccess(pr, checked, balance)

\* precheck that fails when the liquidity check is unavailable
PayPrecheckResult_LiquidityRequired(p, time, checked, balance) ==
    LET pr == p.paymentRequest
        amountSat == pr.satoshi
        expiresAt == pr.expiry
    IN IF ~pr.decodable
       THEN PayPrecheckFail(INVALID_INVOICE, "Failed to decode Lightning invoice")
       ELSE IF expiresAt # 0 /\ expiresAt < time
       THEN PayPrecheckFail(INVOICE_EXPIRED, "Invoice expired")
       ELSE IF p.expectedAmountSat # 0 /\ amountSat # p.expectedAmountSat
       THEN PayPrecheckFail(AMOUNT_MISMATCH,
                            "Invoice amount does not match expected amount")
       ELSE IF amountSat = 0
       THEN PayPrecheckFail(INVALID_INVOICE, "Invoice does not specify an amount")
       ELSE IF ~checked \/ amountSat > balance
       THEN PayPrecheckFail(INSUFFICIENT_LIQUIDITY, "Insufficient Lightning liquidity")
       ELSE PayPrecheckSuccess(pr, checked, balance)

\* result of precheck, the checks in the order the code makes them; checked:
\* connect and getBalance both returned, balance: what getBalance returned
PayPrecheckResult(p, time, checked, balance) ==
    LET pr == p.paymentRequest
        amountSat == pr.satoshi
        expiresAt == pr.expiry
    IN IF ~pr.decodable
       THEN PayPrecheckFail(INVALID_INVOICE, "Failed to decode Lightning invoice")
       ELSE IF expiresAt # 0 /\ expiresAt < time
       THEN PayPrecheckFail(INVOICE_EXPIRED, "Invoice expired")
       ELSE IF p.expectedAmountSat # 0 /\ amountSat # p.expectedAmountSat
       THEN PayPrecheckFail(AMOUNT_MISMATCH,
                            "Invoice amount does not match expected amount")
       ELSE IF amountSat = 0
       THEN PayPrecheckFail(INVALID_INVOICE, "Invoice does not specify an amount")
       ELSE IF checked /\ amountSat > balance
       THEN PayPrecheckFail(INSUFFICIENT_LIQUIDITY, "Insufficient Lightning liquidity")
       ELSE PayPrecheckSuccess(pr, checked, balance)

\* a precheck that connects to the wallet before it validates the invoice
PayPrecheck_ConnectsFirst(p, rail) ==
    LET uri == IF p.nwcUri # NoUri THEN p.nwcUri ELSE nwcUri
        reuse == lnClient # NoUri /\ isConnected
        connected == uri # NoUri /\ (reuse \/ rail.connected)
        checked == connected /\ rail.balanceRead
    IN /\ payPrecheckParams' = p
       /\ payPrecheckTime' = now
       /\ payPrecheckResult' = PayPrecheckResult(p, now, checked, rail.balance)
       /\ payPrecheckRail' = RailAnswer(TRUE, connected, checked, rail.balance)
       /\ IF uri # NoUri /\ ~reuse
          THEN lnClient' = uri /\ isConnected' = rail.connected
          ELSE UNCHANGED <<lnClient, isConnected>>
       /\ UNCHANGED <<now, ledgerVars, htlcVars, railVars, nwcUri, payVars, invVars,
                      invPrecheckVars, verifyVars>>

\* a precheck that hands the invoice to the rail for payment
PayPrecheck_PaysInvoice(p, rail) ==
    LET uri == IF p.nwcUri # NoUri THEN p.nwcUri ELSE nwcUri
        reuse == lnClient # NoUri /\ isConnected
        connected == uri # NoUri /\ (reuse \/ rail.connected)
        checked == connected /\ rail.balanceRead
    IN /\ payPrecheckParams' = p
       /\ payPrecheckTime' = now
       /\ payPrecheckResult' = PayPrecheckResult(p, now, checked, rail.balance)
       /\ payPrecheckRail' = IF PayPrecheckReachesRail(p, now)
                             THEN RailAnswer(TRUE, connected, checked, rail.balance)
                             ELSE RailNotAsked
       /\ IF PayPrecheckReachesRail(p, now) /\ uri # NoUri /\ ~reuse
          THEN lnClient' = uri /\ isConnected' = rail.connected
          ELSE UNCHANGED <<lnClient, isConnected>>
       /\ railInFlight' = IF PayPrecheckReachesRail(p, now) /\ connected
                          THEN railInFlight \cup {[call |-> 0, hash |-> p.paymentRequest.paymentHash]}
                          ELSE railInFlight
       /\ UNCHANGED <<now, ledgerVars, htlcVars, railPaid, railInvoices, nwcUri, payVars,
                      invVars, invPrecheckVars, verifyVars>>

\* precheck of the payment ability. The rail is contacted only for the
\* liquidity check: connect (an open connection is reused, else getInfo
\* returns or throws) and getBalance (returns a balance or throws), as
\* `rail` says.
PayPrecheck(p, rail) ==
    LET uri == IF p.nwcUri # NoUri THEN p.nwcUri ELSE nwcUri
        reuse == lnClient # NoUri /\ isConnected
        connected == uri # NoUri /\ (reuse \/ rail.connected)
        checked == connected /\ rail.balanceRead
    IN /\ payPrecheckParams' = p
       /\ payPrecheckTime' = now
       /\ payPrecheckResult' = PayPrecheckResult(p, now, checked, rail.balance)
       /\ payPrecheckRail' = IF PayPrecheckReachesRail(p, now)
                             THEN RailAnswer(TRUE, connected, checked, rail.balance)
                             ELSE RailNotAsked
       /\ IF PayPrecheckReachesRail(p, now) /\ uri # NoUri /\ ~reuse
          THEN lnClient' = uri /\ isConnected' = rail.connected
          ELSE UNCHANGED <<lnClient, isConnected>>
       /\ UNCHANGED <<now, ledgerVars, htlcVars, railVars, nwcUri, payVars, invVars,
                      invPrecheckVars, verifyVars>>

----------------------------------------------------------------------------
(* Invoice Step: the Lightning invoice ability *)

INVOICE_CREATION_FAILED == "INVOICE_CREATION_FAILED"

InvFail(message) ==
    [kind |-> "fail", reason |-> INVOICE_CREATION_FAILED, error |-> message]

\* An NWC connection string, by what execute reads of it: whether new URL
\* parses it, its protocol, and whether it carries a wallet pubkey, a relay,
\* a secret, and its lud16 parameter ("": none)
NwcUrl(parses, protocol, pubkey, relay, secret, lud16) ==
    [parses |-> parses, protocol |-> protocol, pubkey |-> pubkey, relay |-> relay,
     secret |-> secret, lud16 |-> lud16]

InvUriPlain == NwcUrl(TRUE, "nostr+walletconnect:", TRUE, TRUE, TRUE, "")
InvUriLud16 == NwcUrl(TRUE, "nostr+walletconnect:", TRUE, TRUE, TRUE, "user@domain")
InvUriNoSecret == NwcUrl(TRUE, "nostr+walletconnect:", TRUE, TRUE, FALSE, "")
InvUriHttps == NwcUrl(TRUE, "https:", TRUE, TRUE, TRUE, "")
InvUriUnparsable == NwcUrl(FALSE, "", FALSE, FALSE, FALSE, "")

InvUris == {InvUriPlain, InvUriLud16, InvUriNoSecret, InvUriHttps, InvUriUnparsable}

\* info.alias as getInfo reports it
Aliases == {"node", "user@domain"}

\* s.includes('@')
IncludesAt(s) == s = "user@domain"

\* the least expirySec that precheck accepts
MinExpirySec == 60

\* parameters of execute: an expirySec of a few clock ticks, and the values
\* on either side of MinExpirySec
InvParamSet ==
    [amountSat : Amounts, expirySec : (1..MaxTime) \cup {MinExpirySec - 1, MinExpirySec},
     nwcUri : InvUris]

NoInvParams == [amountSat |-> 0, expirySec |-> 0, nwcUri |-> InvUriUnparsable]

InvIdle == invPc \in {"idle", "done"}

InvSuccess(pr, paymentHash, amountSat, expiresAt) ==
    [kind |-> "success", paymentRequest |-> pr, paymentHash |-> paymentHash,
     amountSat |-> amountSat, expiresAt |-> expiresAt]

\* an execute that does not look for the pubkey, relay and secret of the URI
InvExecuteStart_NoParameterCheck(p) ==
    /\ InvIdle
    /\ invParams' = p
    /\ invStartTime' = now
    /\ IF ~p.nwcUri.parses
       THEN invPc' = "done" /\ invResult' = InvFail("Invalid URL")
       ELSE IF p.nwcUri.protocol # "nostr+walletconnect:"
       THEN invPc' = "done" /\ invResult' = InvFail("Invalid NWC URI protocol")
       ELSE invPc' = "getInfo" /\ invResult' = NoResult
    /\ invCreateCalls' = 0
    /\ UNCHANGED <<now, ledgerVars, htlcVars, railVars, nwcVars, payVars, precheckVars>>

\* execute up to its first await: parse the connection string
InvExecuteStart(p) ==
    /\ InvIdle
    /\ invParams' = p
    /\ invStartTime' = now
    /\ IF ~p.nwcUri.parses
       THEN invPc' = "done" /\ invResult' = InvFail("Invalid URL")
       ELSE IF p.nwcUri.protocol # "nostr+walletconnect:"
       THEN invPc' = "done" /\ invResult' = InvFail("Invalid NWC URI protocol")
       ELSE IF ~(p.nwcUri.pubkey /\ p.nwcUri.relay /\ p.nwcUri.secret)
       THEN invPc' = "done" /\ invResult' = InvFail("NWC URI missing required parameters")
       ELSE invPc' = "getInfo" /\ invResult' = NoResult
    /\ invCreateCalls' = 0
    /\ UNCHANGED <<now, ledgerVars, htlcVars, railVars, nwcVars, payVars, precheckVars>>

\* a getInfo whose exception leaves execute instead of becoming a Fail
InvGetInfo_Propagates(ok, alias) ==
    /\ invPc = "getInfo"
    /\ IF ~ok
       THEN invPc' = "done" /\ invResult' = [kind |-> "throws", error |-> "getInfo"]
       ELSE LET lightningAddress == IF invParams.nwcUri.lud16 # ""
                                    THEN invParams.nwcUri.lud16
                                    ELSE alias
            IN /\ invPc' = IF IncludesAt(lightningAddress)
                           THEN "requestInvoice"
                           ELSE "makeInvoice"
               /\ invResult' = invResult
    /\ UNCHANGED <<now, ledgerVars, htlcVars, railVars, nwcVars, payVars, invParams,
                   invStartTime, invCreateCalls, precheckVars>>

\* nwcClient.getInfo returns or throws; then the Lightning Address, if any,
\* decides how the invoice is requested
InvGetInfo(ok, alias) ==
    /\ invPc = "getInfo"
    /\ IF ~ok
       THEN invPc' = "done" /\ invResult' = InvFail("getInfo")
       ELSE LET lightningAddress == IF invParams.nwcUri.lud16 # ""
                                    THEN invParams.nwcUri.lud16
                                    ELSE alias
            IN /\ invPc' = IF IncludesAt(lightningAddress)
                           THEN "requestInvoice"
                           ELSE "makeInvoice"
               /\ invResult' = invResult
    /\ UNCHANGED <<now, ledgerVars, htlcVars, railVars, nwcVars, payVars, invParams,
                   invStartTime, invCreateCalls, precheckVars>>

\* a Lightning Address request that falls back to makeInvoice when it fails
InvRequestInvoice_FallsBack(ok, preimage, expiry) ==
    /\ invPc = "requestInvoice"
    /\ invCreateCalls' = invCreateCalls + 1
    /\ IF ok
       THEN LET pr == Bolt11(TRUE, Sha256(preimage), invParams.amountSat, expiry)
            IN /\ invPc' = "done"
               /\ railInvoices' = railInvoices \cup {pr}
               /\ invResult' = InvSuccess(pr, InvoicePaymentHash(pr), invParams.amountSat,
                                          now + invParams.expirySec)
       ELSE /\ invPc' = "makeInvoice"
            /\ railInvoices' = railInvoices
            /\ invResult' = NoResult
    /\ UNCHANGED <<now, ledgerVars, htlcVars, railPaid, railInFlight, nwcVars, payVars,
                   invParams, invStartTime, precheckVars>>

\* a Lightning Address path that reads the clock when execute begins
InvRequestInvoice_ClockAtStart(ok, preimage, expiry) ==
    /\ invPc = "requestInvoice"
    /\ invPc' = "done"
    /\ invCreateCalls' = invCreateCalls + 1
    /\ IF ok
       THEN LET pr == Bolt11(TRUE, Sha256(preimage), invParams.amountSat, expiry)
            IN /\ railInvoices' = railInvoices \cup {pr}
               /\ invResult' = InvSuccess(pr, InvoicePaymentHash(pr), invParams.amountSat,
                                          invStartTime + invParams.expirySec)
       ELSE /\ railInvoices' = railInvoices
            /\ invResult' = InvFail("requestInvoice")
    /\ UNCHANGED <<now, ledgerVars, htlcVars, railPaid, railInFlight, nwcVars, payVars,
                   invParams, invStartTime, precheckVars>>

\* ln.fetch and ln.requestInvoice: the wallet behind the Lightning Address
\* issues an invoice on the secret `preimage`, or the request throws
InvRequestInvoice(ok, preimage, expiry) ==
    /\ invPc = "requestInvoice"
    /\ invPc' = "done"
    /\ invCreateCalls' = invCreateCalls + 1
    /\ IF ok
       THEN LET pr == Bolt11(TRUE, Sha256(preimage), invParams.amountSat, expiry)
            IN /\ railInvoices' = railInvoices \cup {pr}
               /\ invResult' = InvSuccess(pr, InvoicePaymentHash(pr), invParams.amountSat,
                                          now + invParams.expirySec)
       ELSE /\ railInvoices' = railInvoices
            /\ invResult' = InvFail("requestInvoice")
    /\ UNCHANGED <<now, ledgerVars, htlcVars, railPaid, railInFlight, nwcVars, payVars,
                   invParams, invStartTime, precheckVars>>

\* a makeInvoice path that returns a payment hash other than the invoice's
InvMakeInvoice_OtherHash(ok, preimage, expiry) ==
    /\ invPc = "makeInvoice"
    /\ invPc' = "done"
    /\ invCreateCalls' = invCreateCalls + 1
    /\ IF ok
       THEN LET pr == Bolt11(TRUE, Sha256(preimage), invParams.amountSat, expiry)
            IN /\ railInvoices' = railInvoices \cup {pr}
               /\ invResult' = InvSuccess(pr, HashString(0),
                                          invParams.amountSat, now + invParams.expirySec)
       ELSE /\ railInvoices' = railInvoices
            /\ invResult' = InvFail("Failed to create invoice via NWC")
    /\ UNCHANGED <<now, ledgerVars, htlcVars, railPaid, railInFlight, nwcVars, payVars,
                   invParams, invStartTime, precheckVars>>

\* nwcClient.makeInvoice: the connected wallet issues an invoice on the
\* secret `preimage`, or the request throws
InvMakeInvoice(ok, preimage, expiry) ==
    /\ invPc = "makeInvoice"
    /\ invPc' = "done"
    /\ invCreateCalls' = invCreateCalls + 1
    /\ IF ok
       THEN LET pr == Bolt11(TRUE, Sha256(preimage), invParams.amountSat, expiry)
            IN /\ railInvoices' = railInvoices \cup {pr}
               /\ invResult' = InvSuccess(pr, Prepend0x(InvoicePaymentHash(pr)),
                                          invParams.amountSat, now + invParams.expirySec)
       ELSE /\ railInvoices' = railInvoices
            /\ invResult' = InvFail("Failed to create invoice via NWC")
    /\ UNCHANGED <<now, ledgerVars, htlcVars, railPaid, railInFlight, nwcVars, payVars,
                   invParams, invStartTime, precheckVars>>

\* a precheck that tests expirySec before it tests nwcUri
InvPrecheckResult_ExpiryBeforeUri(p) ==
    IF p.amountSat <= 0
    THEN [kind |-> "fail", reason |-> "INVALID_AMOUNT",
          error |-> "Amount must be greater than 0"]
    ELSE IF p.expirySec < 60
    THEN [kind |-> "fail", reason |-> "INVALID_AMOUNT",
          error |-> "Expiry must be at least 60 seconds"]
    ELSE IF p.nwcUri.protocol # "nostr+walletconnect:"
    THEN [kind |-> "fail", reason |-> "NWC_CONNECTION_FAILED",
          error |-> "Invalid NWC URI format"]
    ELSE [kind |-> "success", amountSat |-> p.amountSat, canReceive |-> TRUE,
          estimatedFee |-> 0]

\* precheck of the invoice ability
NWC_CONNECTION_FAILED == "NWC_CONNECTION_FAILED"
INVALID_AMOUNT == "INVALID_AMOUNT"

\* KNOWN_ERRORS of the invoice ability
InvKnownErrors ==
    {NWC_CONNECTION_FAILED, INVALID_AMOUNT, INVOICE_CREATION_FAILED,
     "NWC_NOT_SUPPORTED", "LIQUIDITY_INSUFFICIENT"}

\* nwcUri.startsWith('nostr+walletconnect://')
StartsWithNwc(uri) == uri.protocol = "nostr+walletconnect:"

\* parameters of precheck, as the callers and the tests hand them over
InvPrecheckParamSet ==
    [amountSat : 0..MaxAmount, expirySec : {MinExpirySec - 1, MinExpirySec},
     nwcUri : InvUris]

InvPrecheckFail(reason, message) ==
    [kind |-> "fail", reason |-> reason, error |-> message]

InvPrecheckResult(p) ==
    IF p.amountSat <= 0
    THEN InvPrecheckFail(INVALID_AMOUNT, "Amount must be greater than 0")
    ELSE IF ~StartsWithNwc(p.nwcUri)
    THEN InvPrecheckFail(NWC_CONNECTION_FAILED, "Invalid NWC URI format")
    ELSE IF p.expirySec < MinExpirySec
    THEN InvPrecheckFail(INVALID_AMOUNT, "Expiry must be at least 60 seconds")
    ELSE [kind |-> "success", amountSat |-> p.amountSat, canReceive |-> TRUE,
          estimatedFee |-> 0]

\* precheck makes no external call
InvPrecheck(p) ==
    /\ invPrecheckParams' = p
    /\ invPrecheckResult' = InvPrecheckResult(p)
    /\ UNCHANGED <<now, ledgerVars, htlcVars, railVars, nwcVars, payVars, invVars,
                   payPrecheckVars, verifyVars>>

----------------------------------------------------------------------------
(* verifyPreimage *)

\* /^[0-9a-f]{64}$/i: x is no hex digit, so a 0x prefix fails the test
IsHex64(s) == ~s.has0x /\ s.digits = 64 /\ s.hex

\* strings a caller can hand to verifyPreimage
VerifyStrings ==
    [has0x : BOOLEAN, digits : {62, 63, 64}, hex : BOOLEAN,
     val : Bytes32Values \cup Hashes]

NoVerifyArgs == [preimage |-> MissingPreimage, expectedHash |-> MissingPreimage]

\* a verifyPreimage that tests the format of the preimage only
verifyPreimage_PreimageOnly(preimage, expectedHash) ==
    IF StrLen(preimage) # 64
    THEN FALSE
    ELSE IsHex64(preimage)

\* verifyPreimage(preimage, expectedHash)
verifyPreimage(preimage, expectedHash) ==
    IF StrLen(preimage) # 64 \/ StrLen(expectedHash) # 64
    THEN FALSE
    ELSE IsHex64(preimage) /\ IsHex64(expectedHash)

\* a call of verifyPreimage on the strings it was handed
VerifyPreimageCall ==
    /\ verifyPc = "idle"
    /\ verifyPc' = "done"
    /\ verifyResult' = verifyPreimage(verifyArgs.preimage, verifyArgs.expectedHash)
    /\ UNCHANGED <<now, ledgerVars, htlcVars, railVars, nwcVars, payVars, invVars,
                   payPrecheckVars, invPrecheckVars, verifyArgs>>

----------------------------------------------------------------------------
(* Lock Step and ledger *)

InitLedger ==
    /\ now = 1
    /\ contracts = <<>>
    /\ lastReceipt = NoReceipt
    /\ txs = <<>>
    /\ htlcPc = "idle"
    /\ htlcOp = "none"
    /\ htlcParams = NoParams
    /\ htlcCallTime = 0
    /\ htlcTx = 0
    /\ htlcContractId = NoContractId
    /\ htlcBroadcasts = 0
    /\ htlcReturned = {}
    /\ htlcResult = NoResult

InitRail ==
    /\ railPaid = {}
    /\ railInFlight = {}
    /\ railInvoices = {}

InitPay ==
    /\ lnClient = NoUri
    /\ isConnected = FALSE
    /\ payPc = "idle"
    /\ payCall = 0
    /\ payParams = NoPayParams
    /\ payStartTime = 0
    /\ payResult = NoResult
    /\ payInvoiceCalls = 0
    /\ payPrecheckParams = NoPayPrecheckParams
    /\ payPrecheckTime = 0
    /\ payPrecheckResult = NoResult
    /\ payPrecheckRail = RailNotAsked

InitInvoice ==
    /\ invPc = "idle"
    /\ invParams = NoInvParams
    /\ invStartTime = 0
    /\ invResult = NoResult
    /\ invCreateCalls = 0
    /\ invPrecheckParams = NoInvParams
    /\ invPrecheckResult = NoResult

\* verifyPreimage has not been called
InitVerify ==
    /\ verifyPc = "idle"
    /\ verifyArgs = NoVerifyArgs
    /\ verifyResult = FALSE

\* process.env.NWC_URI is unset
Init == InitLedger /\ InitRail /\ InitPay /\ InitInvoice /\ InitVerify /\ nwcUri = NoUri

Next ==
    \/ Tick
    \/ \E p \in HtlcExecuteParams : HtlcExecuteStart(p)
    \/ \E ok \in BOOLEAN : HtlcEstimateGas(ok)
    \/ \E ok \in BOOLEAN : HtlcContractCall(ok)
    \/ \E rpcThrows \in BOOLEAN : HtlcWaitForTransaction(rpcThrows)
    \/ \E i \in 1..MaxTxs, funded \in BOOLEAN : createHTLCToken(i, funded)
    \/ \E id \in DOMAIN contracts, preimage \in Bytes32Values : claim(id, preimage)
    \/ \E id \in DOMAIN contracts : refund(id)

Spec == Init /\ [][Next]_vars

\* The refund of a Lock whose timelock has elapsed is attempted
RefundExpired ==
    \E id \in DOMAIN contracts : RefundAllowed(contracts[id], now) /\ refund(id)

\* The ledger with wallets calling it directly
NextLedger ==
    \/ Tick
    \/ \E p \in HtlcExecuteParams : SendCreateHTLCToken(p)
    \/ \E i \in 1..MaxTxs, funded \in BOOLEAN : createHTLCToken(i, funded)
    \/ \E id \in DOMAIN contracts, preimage \in Bytes32Values : claim(id, preimage)
    \/ \E id \in DOMAIN contracts : refund(id)

SpecLedger == Init /\ [][NextLedger]_vars

\* Time passes, and expired Locks are refunded unless claimed
FairSpec == SpecLedger /\ WF_vars(Tick) /\ WF_vars(RefundExpired)

\* Settlement Step and payment rail
InitPayment ==
    InitLedger /\ InitRail /\ InitPay /\ InitInvoice /\ InitVerify /\ nwcUri \in NwcUris

NextPay ==
    \/ Tick
    \/ \E p \in PayExecuteParams : PayExecuteStart(p)
    \/ \E ok \in BOOLEAN : PayGetInfo(ok)
    \/ \E o \in [settles : BOOLEAN, ok : BOOLEAN, preimage : RailPreimages] :
          PayInvoiceResponds(o)
    \/ PayTimeout
    \/ \E req \in railInFlight, settles \in BOOLEAN : RailLateOutcome(req, settles)

SpecPay == InitPayment /\ [][NextPay]_vars

\* Settlement Step called with any invoice and any expectedAmountSat
NextPayAnyParams ==
    \/ Tick
    \/ \E p \in PayParamSet : PayExecuteStart(p)
    \/ \E ok \in BOOLEAN : PayGetInfo(ok)
    \/ \E o \in [settles : BOOLEAN, ok : BOOLEAN, preimage : RailPreimages] :
          PayInvoiceResponds(o)
    \/ PayTimeout
    \/ \E req \in railInFlight, settles \in BOOLEAN : RailLateOutcome(req, settles)

SpecPayAnyParams == InitPayment /\ [][NextPayAnyParams]_vars

\* A parameter the caller may leave out
Omitted == [given |-> FALSE, value |-> 0]
Given(v) == [given |-> TRUE, value |-> v]

\* .default(60) of timeoutSeconds
DefaultTimeoutSeconds == 60

\* abilityParams as the caller writes them, before abilityParamsSchema is
\* applied
RawPayParams ==
    [paymentRequest : {pr \in PaymentRequests : pr.expiry = 0},
     timeoutSeconds : {Omitted, Given(1)}, nwcUri : NwcUris, expectedAmountSat : {0}]

\* a schema without the default of timeoutSeconds
ParsePayParams_NoDefault(raw) ==
    [paymentRequest |-> raw.paymentRequest,
     timeoutSeconds |-> raw.timeoutSeconds.value,
     nwcUri |-> raw.nwcUri,
     expectedAmountSat |-> raw.expectedAmountSat]

\* abilityParamsSchema.parse: a timeoutSeconds left out becomes the default
ParsePayParams(raw) ==
    [paymentRequest |-> raw.paymentRequest,
     timeoutSeconds |-> IF raw.timeoutSeconds.given
                        THEN raw.timeoutSeconds.value
                        ELSE DefaultTimeoutSeconds,
     nwcUri |-> raw.nwcUri,
     expectedAmountSat |-> raw.expectedAmountSat]

\* Settlement Step called with parameters that went through the schema
NextPayValidated ==
    \/ Tick
    \/ \E raw \in RawPayParams : PayExecuteStart(ParsePayParams(raw))
    \/ \E ok \in BOOLEAN : PayGetInfo(ok)
    \/ \E o \in [settles : BOOLEAN, ok : BOOLEAN, preimage : RailPreimages] :
          PayInvoiceResponds(o)
    \/ PayTimeout
    \/ \E req \in railInFlight, settles \in BOOLEAN : RailLateOutcome(req, settles)

SpecPayValidated == InitPayment /\ [][NextPayValidated]_vars

\* The handlers that have been called so far
Exercised ==
    (IF htlcOp = "none" THEN {} ELSE {<<"htlc", htlcOp>>})
        \cup (IF payCall = 0 THEN {} ELSE {<<"payment", "execute">>})
        \cup (IF payPrecheckResult.kind = "none" THEN {} ELSE {<<"payment", "precheck">>})
        \cup (IF invPc = "idle" THEN {} ELSE {<<"invoice", "execute">>})
        \cup (IF invPrecheckResult.kind = "none" THEN {} ELSE {<<"invoice", "precheck">>})

\* no handler has been called yet
NoneExercised == Exercised = {}

\* Every handler of the three abilities, one call of one handler per run,
\* with the ledger mining the Lock Step's transaction and the rail answering
\* the Settlement Step's request
NextAbilities ==
    \/ Tick
    \/ \E p \in HtlcParamSet, balance \in 0..MaxAmount, allowance \in 0..MaxAmount,
          rpc \in {"ok", "balanceOfThrows", "estimateGasThrows"} :
          NoneExercised /\ HtlcPrecheck(p, balance, allowance, rpc)
    \/ \E p \in HtlcExecuteParams : NoneExercised /\ HtlcExecuteStart(p)
    \/ \E ok \in BOOLEAN : HtlcEstimateGas(ok)
    \/ \E ok \in BOOLEAN : HtlcContractCall(ok)
    \/ \E rpcThrows \in BOOLEAN : HtlcWaitForTransaction(rpcThrows)
    \/ \E i \in 1..MaxTxs, funded \in BOOLEAN : createHTLCToken(i, funded)
    \/ \E p \in PayPrecheckParamSet, rail \in RailAnswers :
          NoneExercised /\ PayPrecheck(p, rail)
    \/ \E p \in PayExecuteParams : NoneExercised /\ PayExecuteStart(p)
    \/ \E ok \in BOOLEAN : PayGetInfo(ok)
    \/ \E o \in [settles : BOOLEAN, ok : BOOLEAN, preimage : RailPreimages] :
          PayInvoiceResponds(o)
    \/ PayTimeout
    \/ \E req \in railInFlight, settles \in BOOLEAN : RailLateOutcome(req, settles)
    \/ \E p \in InvPrecheckParamSet : NoneExercised /\ InvPrecheck(p)
    \/ \E p \in InvParamSet : NoneExercised /\ InvExecuteStart(p)
    \/ \E ok \in BOOLEAN, alias \in Aliases : InvGetInfo(ok, alias)
    \/ \E ok \in BOOLEAN, preimage \in Preimages, expiry \in 0..MaxTime :
          InvRequestInvoice(ok, preimage, expiry)
    \/ \E ok \in BOOLEAN, preimage \in Preimages, expiry \in 0..MaxTime :
          InvMakeInvoice(ok, preimage, expiry)

SpecAbilities == InitPayment /\ [][NextAbilities]_vars

\* verifyPreimage on its own, over every pair of strings
InitVerifyInputs ==
    /\ InitLedger /\ InitRail /\ InitPay /\ InitInvoice
    /\ nwcUri = NoUri
    /\ verifyPc = "idle"
    /\ verifyArgs \in [preimage : VerifyStrings, expectedHash : VerifyStrings]
    /\ verifyResult = FALSE

NextVerify == VerifyPreimageCall

SpecVerify == InitVerifyInputs /\ [][NextVerify]_vars

NextPrecheck ==
    \/ Tick
    \/ \E p \in HtlcParamSet, balance \in 0..MaxAmount, allowance \in 0..MaxAmount,
          rpc \in {"ok", "balanceOfThrows", "estimateGasThrows"} :
          HtlcPrecheck(p, balance, allowance, rpc)

SpecPrecheck == Init /\ [][NextPrecheck]_vars

\* Invoice Validation on its own, against a rail that answers or fails
NextPayPrecheck ==
    \/ Tick
    \/ \E p \in PayPrecheckParamSet, rail \in RailAnswers : PayPrecheck(p, rail)

SpecPayPrecheck == InitPayment /\ [][NextPayPrecheck]_vars

\* Two wallets in one process: calls of the payment ability that name the
\* wallet to use in their parameters
WalletUris == NwcUris \cup {"nostr+walletconnect://B"}

WalletInvoices == {Bolt11(TRUE, h, MaxAmount, 0) : h \in Hashes}

PayWalletParams ==
    [paymentRequest : WalletInvoices, timeoutSeconds : {0, 1}, nwcUri : WalletUris,
     expectedAmountSat : {0}]

PayWalletPrecheckParams ==
    [paymentRequest : WalletInvoices, expectedAmountSat : {0}, nwcUri : WalletUris]

NextPayWallets ==
    \/ Tick
    \/ \E p \in PayWalletPrecheckParams, rail \in RailAnswers : PayPrecheck(p, rail)
    \/ \E p \in PayWalletParams : PayExecuteStart(p)
    \/ \E ok \in BOOLEAN : PayGetInfo(ok)
    \/ \E o \in [settles : BOOLEAN, ok : BOOLEAN, preimage : RailPreimages] :
          PayInvoiceResponds(o)
    \/ PayTimeout
    \/ \E req \in railInFlight, settles \in BOOLEAN : RailLateOutcome(req, settles)

SpecPayWallets == Init /\ [][NextPayWallets]_vars

\* Two Lock Step calls, one after the other, and the ledger
NextTwoLocks ==
    \/ Tick
    \/ \E p \in HtlcExecuteParams : HtlcExecuteStartWithin(p, MaxTxs + 1)
    \/ \E ok \in BOOLEAN : HtlcEstimateGas(ok)
    \/ \E ok \in BOOLEAN : HtlcContractCall(ok)
    \/ \E rpcThrows \in BOOLEAN : HtlcWaitForTransaction(rpcThrows)
    \/ \E i \in 1..(MaxTxs + 1), funded \in BOOLEAN : createHTLCToken(i, funded)

SpecTwoLocks == Init /\ [][NextTwoLocks]_vars

----------------------------------------------------------------------------
(* The swap: invoice, lock, payment, claim/refund composed in order *)

SwapInvoiceIssued == invPc = "done" /\ invResult.kind = "success"

\* the Lock Step is called once, with the invoice's payment hash and a
\* timelock in the future
SwapLockParams ==
    IF SwapInvoiceIssued
    THEN {p \in [paymentHash : {EnsureHexPrefix(invResult.paymentHash)},
                 amount : {invResult.amountSat}, tokenAddress : {WbtcToken},
                 timelock : Timelocks, chainId : {296}] : p.timelock > now}
    ELSE {}

\* the contractId of the HTLCCreated event of the Lock Step's transaction
SwapLockCreated == htlcTx # 0 /\ txs[htlcTx].status = "success"

SwapLock == contracts[txs[htlcTx].contractId]

\* the Settlement Step is called once, on the invoice of the Invoice Step
SwapPayParams ==
    IF SwapInvoiceIssued
    THEN [paymentRequest : {invResult.paymentRequest}, timeoutSeconds : {0, 1},
          nwcUri : NwcUris, expectedAmountSat : {invResult.amountSat}]
    ELSE {}

\* the claimer claims with the preimage the Settlement Step returned
SwapClaim ==
    /\ SwapLockCreated
    /\ PayIdle
    /\ payResult.kind = "success"
    /\ LET preimageBytes32 == Prepend0x(payResult.preimage)
       IN /\ IsBytes32Hex(preimageBytes32)
          /\ claim(txs[htlcTx].contractId, preimageBytes32.val)

\* the sender asks for the refund once the Settlement Step has ended, or
\* the Lock Step has reported a failure
SwapRefund ==
    /\ SwapLockCreated
    /\ \/ payPc = "done"
       \/ htlcPc = "done" /\ htlcResult.kind = "fail"
    /\ refund(txs[htlcTx].contractId)

NextSwap ==
    \/ Tick
    \/ \E p \in InvParamSet : invPc = "idle" /\ p.expirySec = MaxTime /\ InvExecuteStart(p)
    \/ \E ok \in BOOLEAN, alias \in Aliases : InvGetInfo(ok, alias)
    \/ \E ok \in BOOLEAN, preimage \in Preimages : InvRequestInvoice(ok, preimage, MaxTime)
    \/ \E ok \in BOOLEAN, preimage \in Preimages : InvMakeInvoice(ok, preimage, MaxTime)
    \/ \E p \in SwapLockParams : htlcOp = "none" /\ HtlcExecuteStart(p)
    \/ \E ok \in BOOLEAN : HtlcEstimateGas(ok)
    \/ \E ok \in BOOLEAN : HtlcContractCall(ok)
    \/ \E rpcThrows \in BOOLEAN : HtlcWaitForTransaction(rpcThrows)
    \/ \E i \in 1..MaxTxs, funded \in BOOLEAN : createHTLCToken(i, funded)
    \/ \E p \in SwapPayParams :
          HtlcExecuteSucceeded /\ htlcPc = "done" /\ payCall = 0 /\ PayExecuteStart(p)
    \/ \E ok \in BOOLEAN : PayGetInfo(ok)
    \/ \E o \in [settles : BOOLEAN, ok : BOOLEAN, preimage : RailPreimages] :
          PayInvoiceResponds(o)
    \/ PayTimeout
    \/ \E req \in railInFlight, settles \in BOOLEAN : RailLateOutcome(req, settles)
    \/ SwapClaim
    \/ SwapRefund

SpecSwap == Init /\ [][NextSwap]_vars

----------------------------------------------------------------------------
(* Properties of the Lock Step and the ledger *)

Pending(lock) == ~lock.withdrawn /\ ~lock.refunded

Terminal(lock) == lock.withdrawn \/ lock.refunded

\* The Lock that a Lock Step call with parameters p asks for
LockMatches(lock, p) ==
    /\ lock.hashlock = p.paymentHash.val
    /\ lock.timelock = p.timelock
    /\ lock.tokenAddress = p.tokenAddress
    /\ lock.amount = p.amount
    /\ lock.sender = UserAddress

\* C1: the Settlement Step returns Success only with a preimage whose SHA-256
\* is the paymentHash of the paid invoice.
C1_SuccessOnlyWithMatchingPreimage ==
    payResult.kind = "success" =>
        Sha256(payResult.preimage.val) = payResult.paymentHash.val

\* C2: a Lock Step call (precheck or execute) made with timelock <= now fails
\* with INVALID_TIMELOCK and never signs or broadcasts the createHTLCToken
\* transaction.
C2_PastTimelockRejected ==
    (htlcOp # "none" /\ htlcParams.timelock <= htlcCallTime) =>
        /\ htlcBroadcasts = 0
        /\ htlcPc = "done" => htlcResult = HtlcFail(INVALID_TIMELOCK)

\* C3: no Lock is ever both withdrawn and refunded.
C3_WithdrawnRefundedExclusive ==
    \A id \in DOMAIN contracts : ~(contracts[id].withdrawn /\ contracts[id].refunded)

\* a claim with the right preimage was attempted on a refunded Lock
C3_Witness ==
    \E id \in DOMAIN contracts :
        /\ contracts[id].refunded
        /\ lastReceipt.op = "claim"
        /\ lastReceipt.id = id
        /\ Sha256(lastReceipt.preimage) = contracts[id].hashlock

\* C4: once a Lock is withdrawn or refunded, every later claim or refund on
\* it is reverted and the Lock record never changes again.
C4_TerminalStatesFinal ==
    [][\A id \in DOMAIN contracts :
          Terminal(contracts[id]) =>
              /\ contracts'[id] = contracts[id]
              /\ ((\E p \in Bytes32Values : claim(id, p)) \/ refund(id)) =>
                     lastReceipt'.status = 0]_vars

\* a second claim with the stored preimage was attempted on a withdrawn Lock
C4_Witness ==
    \E id \in DOMAIN contracts :
        /\ contracts[id].withdrawn
        /\ lastReceipt = Receipt("claim", id, contracts[id].preimage, lastReceipt.time, 0)

\* C5: a claim on a pending Lock succeeds exactly when the preimage hashes to
\* the Lock's paymentHash, and then sets withdrawn and preimage together; a
\* Lock's preimage is non-empty exactly when it is withdrawn, and then hashes
\* to its paymentHash; any other claim is reverted and leaves the Lock pending.
C5_ClaimNeedsPreimage ==
    /\ [](\A id \in DOMAIN contracts :
            /\ contracts[id].preimage # EmptyPreimage <=> contracts[id].withdrawn
            /\ contracts[id].withdrawn => Sha256(contracts[id].preimage) = contracts[id].hashlock)
    /\ [][\A id \in DOMAIN contracts, p \in Bytes32Values :
            (Pending(contracts[id]) /\ claim(id, p)) =>
                IF Sha256(p) = contracts[id].hashlock
                THEN /\ contracts'[id].withdrawn
                     /\ contracts'[id].preimage = p
                     /\ lastReceipt'.status = 1
                ELSE /\ contracts'[id] = contracts[id]
                     /\ lastReceipt'.status = 0]_vars

\* a Lock was claimed, and the latest claim is the successful one
C5_Witness ==
    \E id \in DOMAIN contracts :
        /\ contracts[id].withdrawn
        /\ lastReceipt = Receipt("claim", id, contracts[id].preimage, lastReceipt.time, 1)

\* C6: a refund of a pending Lock is reverted while now < timelock and leaves
\* the Lock pending; at now >= timelock it succeeds and sets refunded, with
\* withdrawn still false.
C6_RefundOnlyAfterTimelock ==
    [][\A id \in DOMAIN contracts :
          (Pending(contracts[id]) /\ refund(id)) =>
              IF now < contracts[id].timelock
              THEN /\ contracts'[id] = contracts[id]
                   /\ lastReceipt'.status = 0
              ELSE /\ contracts'[id].refunded
                   /\ ~contracts'[id].withdrawn
                   /\ lastReceipt'.status = 1]_vars

\* a refund was attempted before the timelock and the Lock is still pending
C6_Witness ==
    \E id \in DOMAIN contracts :
        /\ Pending(contracts[id])
        /\ now < contracts[id].timelock
        /\ lastReceipt = Receipt("refund", id, EmptyPreimage, lastReceipt.time, 0)

\* C7: a claim with the right preimage on a pending Lock succeeds also when
\* the timelock has elapsed.
C7_ClaimValidAfterTimelock ==
    [][\A id \in DOMAIN contracts, p \in Bytes32Values :
          (/\ Pending(contracts[id])
           /\ now >= contracts[id].timelock
           /\ Sha256(p) = contracts[id].hashlock
           /\ claim(id, p)) =>
              /\ contracts'[id].withdrawn
              /\ lastReceipt'.status = 1]_vars

\* a Lock was claimed at or after its timelock
C7_Witness ==
    \E id \in DOMAIN contracts :
        /\ contracts[id].withdrawn
        /\ lastReceipt.op = "claim"
        /\ lastReceipt.id = id
        /\ lastReceipt.status = 1
        /\ lastReceipt.time >= contracts[id].timelock

\* the step in which execute returns Success
HtlcExecuteReturnsSuccess ==
    htlcPc # "done" /\ htlcPc' = "done" /\ htlcOp' = "execute" /\ htlcResult'.kind = "success"

\* C8 as stated: at the moment execute returns Success, a Lock with the given
\* paymentHash, timelock, token and amount and the delegator as sender exists
\* and is neither withdrawn nor refunded.
C8_LockPendingOnSuccess ==
    [][HtlcExecuteReturnsSuccess =>
          \E id \in DOMAIN contracts' :
              LockMatches(contracts'[id], htlcParams') /\ Pending(contracts'[id])]_vars

\* C8 as amended: at the moment execute returns Success, a Lock with the given
\* paymentHash, timelock, token and amount and the delegator as sender exists;
\* every Lock is neither withdrawn nor refunded when it is created.
C8_LockExistsOnSuccess ==
    [][/\ HtlcExecuteReturnsSuccess =>
             \E id \in DOMAIN contracts' : LockMatches(contracts'[id], htlcParams')
       /\ \A id \in DOMAIN contracts' :
             id \notin DOMAIN contracts => Pending(contracts'[id])]_vars

\* execute has returned Success and the Lock it asked for is on the ledger
C8_Witness ==
    /\ HtlcExecuteSucceeded
    /\ \E id \in DOMAIN contracts : LockMatches(contracts[id], htlcParams)

\* the swap's invoice has been settled on the payment rail
SwapInvoicePaid == invResult.paymentRequest.paymentHash \in railPaid

\* a final state of a swap: the Lock is resolved, the Settlement Step has
\* returned and the rail holds no pay request
SwapFinal ==
    /\ SwapInvoiceIssued
    /\ SwapLockCreated
    /\ Terminal(SwapLock)
    /\ PayIdle
    /\ railInFlight = {}

C10_LockEventuallyResolved ==
    /\ \A i \in 1..MaxTxs :
          (i <= Len(txs) /\ txs[i].status = "success")
              ~> (/\ i <= Len(txs)
                  /\ txs[i].status = "success"
                  /\ Terminal(contracts[txs[i].contractId]))
    /\ [][\A id \in DOMAIN contracts : id \in DOMAIN contracts']_vars

\* a Lock that nobody claimed was refunded after its timelock
C10_Witness ==
    \E id \in DOMAIN contracts :
        /\ contracts[id].refunded
        /\ lastReceipt = Receipt("refund", id, EmptyPreimage, lastReceipt.time, 1)
        /\ lastReceipt.time >= contracts[id].timelock

----------------------------------------------------------------------------
(* Properties of Invoice Validation *)

PayPrecheckReturned == payPrecheckResult.kind # "none"

\* what the latest precheck call decoded from its paymentRequest
PrecheckInvoice == payPrecheckParams.paymentRequest

\* the decoded expiry date was in the past when precheck read the clock
PrecheckInvoiceExpired ==
    PrecheckInvoice.expiry # 0 /\ PrecheckInvoice.expiry < payPrecheckTime

PayPrecheckFailedWith(reason) ==
    payPrecheckResult.kind = "fail" /\ payPrecheckResult.reason = reason

\* expectedAmountSat was supplied and differs from the decoded amount
PrecheckAmountDiffers ==
    /\ PrecheckInvoice.decodable
    /\ payPrecheckParams.expectedAmountSat # 0
    /\ PrecheckInvoice.satoshi # payPrecheckParams.expectedAmountSat

\* expectedAmountSat was supplied and equals the decoded amount
PrecheckAmountEqual ==
    /\ PrecheckInvoice.decodable
    /\ payPrecheckParams.expectedAmountSat # 0
    /\ PrecheckInvoice.satoshi = payPrecheckParams.expectedAmountSat

\* C11 as stated: Invoice Validation fails with AMOUNT_MISMATCH whenever
\* expectedAmountSat is supplied and differs from the decoded amount; when it
\* is supplied and equal, precheck succeeds reporting the decoded amount,
\* provided the invoice is unexpired and liquidity is not found insufficient.
C11_MismatchAlwaysReported ==
    PayPrecheckReturned =>
        /\ PrecheckAmountDiffers => PayPrecheckFailedWith(AMOUNT_MISMATCH)
        /\ (/\ PrecheckAmountEqual
            /\ ~PrecheckInvoiceExpired
            /\ ~PayPrecheckFailedWith(INSUFFICIENT_LIQUIDITY))
              => /\ payPrecheckResult.kind = "success"
                 /\ payPrecheckResult.amountSat = PrecheckInvoice.satoshi

\* C11 amended: for an invoice that is unexpired, Invoice Validation fails
\* with AMOUNT_MISMATCH whenever expectedAmountSat is supplied and differs from
\* the decoded amount; when it is supplied and equal, precheck succeeds
\* reporting the decoded amount unless liquidity is found insufficient.
C11_MismatchReportedUnlessExpired ==
    (PayPrecheckReturned /\ ~PrecheckInvoiceExpired) =>
        /\ PrecheckAmountDiffers => PayPrecheckFailedWith(AMOUNT_MISMATCH)
        /\ (PrecheckAmountEqual /\ ~PayPrecheckFailedWith(INSUFFICIENT_LIQUIDITY))
              => /\ payPrecheckResult.kind = "success"
                 /\ payPrecheckResult.amountSat = PrecheckInvoice.satoshi

\* precheck was called on an unexpired invoice with an expectedAmountSat that
\* differs from its positive amount, and returned AMOUNT_MISMATCH
C11_Witness ==
    /\ PayPrecheckReturned
    /\ ~PrecheckInvoiceExpired
    /\ PrecheckAmountDiffers
    /\ PrecheckInvoice.satoshi # 0
    /\ PayPrecheckFailedWith(AMOUNT_MISMATCH)

\* C12 as stated: Invoice Validation fails with INVALID_INVOICE whenever
\* decoding the paymentRequest fails or the decoded invoice carries no amount,
\* for every value of the other parameters.
C12_InvalidInvoiceAlways ==
    (PayPrecheckReturned /\ (~PrecheckInvoice.decodable \/ PrecheckInvoice.satoshi = 0))
        => PayPrecheckFailedWith(INVALID_INVOICE)

\* C12 amended: Invoice Validation fails with INVALID_INVOICE whenever
\* decoding fails, for every value of the other parameters, and whenever the
\* decoded invoice carries no amount, is unexpired, and no expectedAmountSat
\* is supplied; an invoice without amount never passes.
C12_InvalidInvoiceAfterEarlierChecks ==
    PayPrecheckReturned =>
        /\ ~PrecheckInvoice.decodable => PayPrecheckFailedWith(INVALID_INVOICE)
        /\ (/\ PrecheckInvoice.decodable
            /\ PrecheckInvoice.satoshi = 0
            /\ ~PrecheckInvoiceExpired
            /\ payPrecheckParams.expectedAmountSat = 0)
              => PayPrecheckFailedWith(INVALID_INVOICE)
        /\ (PrecheckInvoice.decodable /\ PrecheckInvoice.satoshi = 0)
              => payPrecheckResult.kind = "fail"

\* precheck was called on an unexpired invoice without amount, with no
\* expectedAmountSat, and returned INVALID_INVOICE
C12_Witness ==
    /\ PayPrecheckReturned
    /\ PrecheckInvoice.decodable
    /\ PrecheckInvoice.satoshi = 0
    /\ ~PrecheckInvoiceExpired
    /\ payPrecheckParams.expectedAmountSat = 0
    /\ PayPrecheckFailedWith(INVALID_INVOICE)

\* C13: Invoice Validation fails with INVOICE_EXPIRED whenever the decoded
\* invoice's expiresAt is in the past, and never returns Success for such an
\* invoice.
C13_ExpiredInvoiceRejected ==
    (PayPrecheckReturned /\ PrecheckInvoice.decodable /\ PrecheckInvoiceExpired)
        => PayPrecheckFailedWith(INVOICE_EXPIRED)

\* precheck was called after the expiry date of an invoice that is otherwise
\* payable, and returned INVOICE_EXPIRED
C13_Witness ==
    /\ PayPrecheckReturned
    /\ PrecheckInvoice.decodable
    /\ PrecheckInvoiceExpired
    /\ PrecheckInvoice.satoshi # 0
    /\ payPrecheckParams.expectedAmountSat \in {0, PrecheckInvoice.satoshi}
    /\ PayPrecheckFailedWith(INVOICE_EXPIRED)

\* C14: the liquidity check is best-effort. When precheck gets as far as the
\* liquidity check: if the rail is reachable and reports a balance below
\* amountSat, precheck fails with INSUFFICIENT_LIQUIDITY; if connecting to the
\* rail or reading the balance fails, precheck returns Success with
\* availableLiquidity absent.
C14_LiquidityCheckBestEffort ==
    (PayPrecheckReturned /\ payPrecheckRail.asked) =>
        /\ (/\ payPrecheckRail.connected
            /\ payPrecheckRail.balanceRead
            /\ payPrecheckRail.balance < PrecheckInvoice.satoshi)
              => PayPrecheckFailedWith(INSUFFICIENT_LIQUIDITY)
        /\ (~payPrecheckRail.connected \/ ~payPrecheckRail.balanceRead)
              => /\ payPrecheckResult.kind = "success"
                 /\ "availableLiquidity" \notin DOMAIN payPrecheckResult

\* the wallet connection failed during a precheck call, which returned
\* Success without availableLiquidity
C14_Witness ==
    /\ PayPrecheckReturned
    /\ payPrecheckRail.asked
    /\ ~payPrecheckRail.connected
    /\ payPrecheckResult.kind = "success"
    /\ "availableLiquidity" \notin DOMAIN payPrecheckResult
    /\ lnClient # NoUri
    /\ ~isConnected

----------------------------------------------------------------------------
(* Properties of the Settlement Step *)

\* the result says that the timer elapsed
PayTimedOutResult(r) ==
    r.kind = "fail" /\ r.reason = PAYMENT_FAILED /\ r.error = "Payment timeout"

C16_MalformedPreimageNeverSuccess ==
    (payPc = "done" /\ payResult.kind = "success") =>
        /\ ~payResult.preimage.has0x
        /\ payResult.preimage.digits = 64
        /\ payResult.preimage.hex

\* the invoice that the Settlement Step call decoded
PayInvoice == payParams.paymentRequest

\* C17: the Settlement Step never invokes the rail's pay operation for an
\* invoice whose expiresAt is already in the past.
C17_ExpiredInvoiceNeverPaid ==
    payPc = "payInvoice" =>
        ~(PayInvoice.expiry # 0 /\ PayInvoice.expiry < payStartTime)

\* C18: when expectedAmountSat is supplied to execute and differs from the
\* invoice's decoded amount, the rail's pay operation is not invoked.
C18_MismatchedAmountNeverPaid ==
    payPc = "payInvoice" =>
        ~(/\ payParams.expectedAmountSat # 0
          /\ PayInvoice.satoshi # payParams.expectedAmountSat)

----------------------------------------------------------------------------
(* Properties of all three abilities *)

\* A step in which a precheck of one of the three abilities returns: only
\* the prechecks write the records of the latest precheck call
PrecheckStep ==
    \/ htlcOp' = "precheck" /\ htlcVars' # htlcVars
    \/ payPrecheckVars' # payPrecheckVars
    \/ invPrecheckVars' # invPrecheckVars

\* C19: precheck is non-mutating in all three abilities. No precheck call
\* invokes a state-changing external operation: the rail's paid invoices,
\* pay requests and issued invoices, and the ledger's Locks, receipts and
\* transactions are the same after the call as before it.
C19_PrecheckNonMutating ==
    [][PrecheckStep => UNCHANGED <<railVars, ledgerVars>>]_vars

\* the Settlement precheck has connected to the wallet and read its balance,
\* and nothing has been asked of the rail or the ledger
C19_Witness ==
    /\ PayPrecheckReturned
    /\ payPrecheckRail.balanceRead
    /\ isConnected
    /\ railPaid = {} /\ railInFlight = {} /\ railInvoices = {}
    /\ txs = <<>>

\* A Fail carries a known reason code and an error string; a Success carries
\* neither field
ResultWellFormed(r, knownErrors) ==
    /\ r.kind = "fail" =>
          /\ {"reason", "error"} \subseteq DOMAIN r
          /\ r.reason \in knownErrors
          /\ r.error \in STRING
    /\ r.kind = "success" => DOMAIN r \cap {"reason", "error"} = {}

\* C20: every Fail result returned by any precheck or execute carries both a
\* reason code from the ability's known error codes and an error string, and
\* no Success result carries a reason or error field.
C20_FailCarriesReasonAndError ==
    /\ ResultWellFormed(htlcResult, HtlcKnownErrors)
    /\ ResultWellFormed(payResult, PayKnownErrors)
    /\ ResultWellFormed(payPrecheckResult, PayKnownErrors)
    /\ ResultWellFormed(invResult, InvKnownErrors)
    /\ ResultWellFormed(invPrecheckResult, InvKnownErrors)

\* the Lock Step's execute has returned the failure of a reverted transaction
C20_Witness ==
    /\ htlcOp = "execute"
    /\ htlcPc = "done"
    /\ htlcTx # 0
    /\ htlcResult.kind = "fail"
    /\ htlcResult.reason = TRANSACTION_FAILED

\* r is what a handler hands back: one Success or one Fail
Returned(r) == r.kind \in {"success", "fail"}

C22_AtMostOneAttempt ==
    /\ htlcBroadcasts <= 1
    /\ payInvoiceCalls <= 1
    /\ invCreateCalls <= 1

\* the invoice request failed and execute returned without a second attempt
C22_Witness ==
    /\ invPc = "done"
    /\ invCreateCalls = 1
    /\ invResult.kind = "fail"

----------------------------------------------------------------------------
(* Properties of the Invoice Step *)

InvExecuteSucceeded == invPc = "done" /\ invResult.kind = "success"

\* s without a leading "0x"
Strip0x(s) == IF s.has0x THEN HexStr(FALSE, s.digits, s.hex, s.val) ELSE s

C24_HashIsBytes32Hex ==
    InvExecuteSucceeded => IsBytes32Hex(invResult.paymentHash)

InvPrecheckReturned == invPrecheckResult.kind # "none"

InvPrecheckFailedWith(reason) ==
    invPrecheckResult.kind = "fail" /\ invPrecheckResult.reason = reason

\* C25: the Invoice Step's precheck succeeds exactly when amountSat > 0,
\* nwcUri starts with nostr+walletconnect:// and expirySec >= 60; otherwise
\* it fails with the reason of the first failing check in that order
\* (INVALID_AMOUNT, NWC_CONNECTION_FAILED, INVALID_AMOUNT); a Success echoes
\* amountSat with canReceive = true and estimatedFee = 0.
C25_InvPrecheckChecksInOrder ==
    InvPrecheckReturned =>
        LET p == invPrecheckParams
            amountOk == p.amountSat > 0
            uriOk == StartsWithNwc(p.nwcUri)
            expiryOk == p.expirySec >= MinExpirySec
        IN /\ invPrecheckResult.kind = "success" <=> (amountOk /\ uriOk /\ expiryOk)
           /\ ~amountOk => InvPrecheckFailedWith(INVALID_AMOUNT)
           /\ amountOk /\ ~uriOk => InvPrecheckFailedWith(NWC_CONNECTION_FAILED)
           /\ amountOk /\ uriOk /\ ~expiryOk => InvPrecheckFailedWith(INVALID_AMOUNT)
           /\ invPrecheckResult.kind = "success" =>
                 /\ invPrecheckResult.amountSat = p.amountSat
                 /\ invPrecheckResult.canReceive = TRUE
                 /\ invPrecheckResult.estimatedFee = 0

\* precheck was called with a wrong URI and a short expiry, and reported the
\* URI
C25_Witness ==
    /\ InvPrecheckReturned
    /\ invPrecheckParams.amountSat > 0
    /\ ~StartsWithNwc(invPrecheckParams.nwcUri)
    /\ invPrecheckParams.expirySec < MinExpirySec
    /\ InvPrecheckFailedWith(NWC_CONNECTION_FAILED)

\* C26: the Invoice Step rejects every request whose expirySec is below 60:
\* execute returns Fail and no invoice is created on the payment rail.
C26_ShortExpiryRejected ==
    (invPc # "idle" /\ invParams.expirySec < MinExpirySec) =>
        /\ invPc = "done" => invResult.kind = "fail"
        /\ railInvoices = {}

\* the connection string has the wrong scheme or lacks the wallet's pubkey,
\* the relay or the secret
InvUriMalformed(uri) ==
    \/ ~uri.parses
    \/ uri.protocol # "nostr+walletconnect:"
    \/ ~(uri.pubkey /\ uri.relay /\ uri.secret)

InvExecuteFailedWith(reason) ==
    invPc = "done" /\ invResult.kind = "fail" /\ invResult.reason = reason

\* C27 as stated: a malformed connection descriptor makes the Invoice Step
\* fail with NWC_CONNECTION_FAILED without contacting the payment rail, and
\* INVOICE_CREATION_FAILED is reported when the rail rejects the request.
C27_MalformedUriIsConnectionFailure ==
    /\ (invPc # "idle" /\ InvUriMalformed(invParams.nwcUri)) =>
          /\ InvExecuteFailedWith(NWC_CONNECTION_FAILED)
          /\ invCreateCalls = 0
    /\ (InvPrecheckReturned /\ invPrecheckParams.amountSat > 0
            /\ InvUriMalformed(invPrecheckParams.nwcUri)) =>
          InvPrecheckFailedWith(NWC_CONNECTION_FAILED)
    /\ (invPc = "done" /\ invCreateCalls = 1 /\ invResult.kind = "fail") =>
          invResult.reason = INVOICE_CREATION_FAILED

\* C27 amended: with a malformed connection descriptor execute fails with
\* INVOICE_CREATION_FAILED without contacting the payment rail; precheck
\* fails with NWC_CONNECTION_FAILED, without contacting the rail, when the
\* scheme is wrong (and amountSat is positive); INVOICE_CREATION_FAILED is
\* also what execute reports when the rail rejects the request.
C27_MalformedUriFailsBeforeRail ==
    /\ (invPc # "idle" /\ InvUriMalformed(invParams.nwcUri)) =>
          /\ InvExecuteFailedWith(INVOICE_CREATION_FAILED)
          /\ invCreateCalls = 0
          /\ railInvoices = {}
    /\ (InvPrecheckReturned /\ invPrecheckParams.amountSat > 0
            /\ ~StartsWithNwc(invPrecheckParams.nwcUri)) =>
          InvPrecheckFailedWith(NWC_CONNECTION_FAILED)
    /\ (invPc = "done" /\ invCreateCalls = 1 /\ invResult.kind = "fail") =>
          invResult.reason = INVOICE_CREATION_FAILED

\* execute was called with a connection string that lacks its secret
C27_Witness ==
    /\ invParams.nwcUri = InvUriNoSecret
    /\ InvExecuteFailedWith(INVOICE_CREATION_FAILED)
    /\ invResult.error = "NWC URI missing required parameters"

----------------------------------------------------------------------------
(* Properties of the wallet connection *)

\* C28: when nwcUri is supplied in the payment ability's parameters, that
\* call's balance query and its payment go through a wallet connection
\* opened with that nwcUri, whatever calls were made earlier in the process.
C28_SuppliedUriIsUsed ==
    /\ (payPc = "payInvoice" /\ payParams.nwcUri # NoUri) =>
          lnClient = payParams.nwcUri
    /\ (payPrecheckRail.balanceRead /\ payPrecheckParams.nwcUri # NoUri) =>
          lnClient = payPrecheckParams.nwcUri

----------------------------------------------------------------------------
(* Properties of the Lock Step *)

\* C29: the Lock Step's execute returns Success only after the confirmation
\* wait has returned a receipt with a non-failure status; a failed signing
\* or broadcast, a missing receipt or a receipt of a reverted transaction
\* gives Fail with TRANSACTION_FAILED; while the confirmation is pending
\* the step has returned no result.
C29_SuccessOnlyAfterReceipt ==
    /\ HtlcExecuteSucceeded =>
          /\ htlcPc = "done"
          /\ htlcTx # 0
          /\ txs[htlcTx].status = "success"
    /\ (htlcOp = "execute" /\ htlcPc = "done"
            /\ (htlcTx = 0 \/ txs[htlcTx].status # "success")) =>
          htlcResult = HtlcFail(TRANSACTION_FAILED)
    /\ htlcPc = "waitForTransaction" => htlcResult = NoResult

\* execute has returned the failure of a transaction that was mined and
\* reverted
C29_Witness ==
    /\ htlcOp = "execute"
    /\ htlcPc = "done"
    /\ htlcTx # 0
    /\ txs[htlcTx].status = "reverted"
    /\ htlcResult = HtlcFail(TRANSACTION_FAILED)

\* the inputs of a precheck call that passes every check other than the
\* allowance: the chain is known, the hash well formed, the timelock in the
\* future, the ledger reads return and the balance covers the amount
HtlcPrecheckPassesButAllowance(p, time, balance, rpc) ==
    /\ ~getHederaNetworkThrows(p.chainId)
    /\ IsBytes32Hex(p.paymentHash)
    /\ p.timelock > time
    /\ rpc = "ok"
    /\ balance >= p.amount

\* C30: in the Lock Step's precheck an insufficient allowance is reported,
\* not fatal: when the balance covers the amount and the allowance does not,
\* a precheck whose other checks pass returns Success with hasAllowance =
\* false and hasBalance = true.
C30_AllowanceReportedNotFatal ==
    [][\A p \in HtlcParamSet, balance \in 0..MaxAmount, allowance \in 0..MaxAmount :
          (/\ HtlcPrecheck(p, balance, allowance, "ok")
           /\ HtlcPrecheckPassesButAllowance(p, now, balance, "ok")
           /\ allowance < p.amount) =>
              /\ htlcResult'.kind = "success"
              /\ htlcResult'.hasAllowance = FALSE
              /\ htlcResult'.hasBalance = TRUE]_vars

\* precheck has returned Success and reported the missing allowance
C30_Witness ==
    /\ htlcOp = "precheck"
    /\ htlcPc = "done"
    /\ htlcResult.kind = "success"
    /\ ~htlcResult.hasAllowance
    /\ htlcResult.hasBalance
    /\ htlcResult.availableBalance >= htlcParams.amount

HtlcFailedWith(r, reason) == r.kind = "fail" /\ r.reason = reason

C32_ReturnedIdIsEventId ==
    HtlcExecuteSucceeded =>
        /\ htlcResult.contractId = txs[htlcTx].contractId
        /\ htlcResult.contractId \in DOMAIN contracts
        /\ LockMatches(contracts[htlcResult.contractId], htlcParams)

\* C33: contractId is unique per Lock: two successful Lock Step executes
\* that created two distinct Locks returned different contractIds, whatever
\* their parameters and creation times, identical parameters included.
C33_ReturnedIdsDistinct ==
    \A a, b \in htlcReturned :
        (a.tx # b.tx /\ txs[a.tx].contractId # txs[b.tx].contractId) =>
            a.contractId # b.contractId

----------------------------------------------------------------------------
(* Properties of the prechecks' contact with external systems *)

HtlcPrecheckFailedWith(reasons) ==
    /\ htlcOp = "precheck"
    /\ htlcPc = "done"
    /\ htlcResult.kind = "fail"
    /\ htlcResult.reason \in reasons

PayPrecheckFailedWithin(reasons) ==
    payPrecheckResult.kind = "fail" /\ payPrecheckResult.reason \in reasons

\* the Lock Step precheck that returned had gone on to the ledger's RPC
HtlcPrecheckContactedLedger == HtlcPrecheckReachesLedger(htlcParams, htlcCallTime)

\* an Invoice Step precheck leaves the wallet connection, the rail and the
\* ledger alone
InvPrecheckLocal ==
    [][invPrecheckVars' # invPrecheckVars =>
          UNCHANGED <<railVars, nwcVars, ledgerVars>>]_vars

\* C34 as stated: every precondition failure (INVALID_INVOICE,
\* INVOICE_EXPIRED, AMOUNT_MISMATCH, INSUFFICIENT_LIQUIDITY, INVALID_AMOUNT,
\* INVALID_PAYMENT_HASH, INVALID_TIMELOCK, INSUFFICIENT_BALANCE,
\* CONTRACT_ERROR) is reported without the payment rail or the ledger's RPC
\* having been contacted during that call.
C34_PreconditionFailuresLocal ==
    /\ [](PayPrecheckFailedWithin({INVALID_INVOICE, INVOICE_EXPIRED, AMOUNT_MISMATCH,
                                    INSUFFICIENT_LIQUIDITY})
             => ~payPrecheckRail.asked)
    /\ [](HtlcPrecheckFailedWith({INVALID_PAYMENT_HASH, INVALID_TIMELOCK,
                                   INSUFFICIENT_BALANCE, CONTRACT_ERROR})
             => ~HtlcPrecheckContactedLedger)
    /\ InvPrecheckLocal

PayValidationFailuresLocal ==
    /\ PayPrecheckFailedWithin({INVALID_INVOICE, INVOICE_EXPIRED, AMOUNT_MISMATCH}) =>
          ~payPrecheckRail.asked
    /\ PayPrecheckFailedWithin({INSUFFICIENT_LIQUIDITY}) =>
          (payPrecheckRail.asked /\ payPrecheckRail.balanceRead)

HtlcValidationFailuresLocal ==
    /\ HtlcPrecheckFailedWith({INVALID_PAYMENT_HASH, INVALID_TIMELOCK}) =>
          ~HtlcPrecheckContactedLedger
    /\ HtlcPrecheckFailedWith({INSUFFICIENT_BALANCE}) => HtlcPrecheckContactedLedger

\* C34 amended: INVALID_INVOICE, INVOICE_EXPIRED, AMOUNT_MISMATCH,
\* INVALID_AMOUNT, INVALID_PAYMENT_HASH and INVALID_TIMELOCK are reported
\* without the payment rail or the ledger's RPC having been contacted;
\* INSUFFICIENT_LIQUIDITY is reported after the wallet's balance was read
\* and INSUFFICIENT_BALANCE after the ledger was read.
C34_ValidationFailuresLocal ==
    /\ []PayValidationFailuresLocal
    /\ []HtlcValidationFailuresLocal
    /\ InvPrecheckLocal

\* the Settlement precheck rejected an expired invoice while a wallet URI
\* was at hand, and did not go to the rail
C34_Witness ==
    /\ PayPrecheckFailedWithin({INVOICE_EXPIRED})
    /\ payPrecheckParams.nwcUri # NoUri
    /\ ~payPrecheckRail.asked
    /\ lnClient = NoUri

\* C35: the payment-rail connection is a single handle reused across the
\* calls of a process: once a connection is established every later call of
\* the payment ability uses that same client, and when precheck and execute
\* calls overlap at most one client is constructed and used.
C35_SingleClient ==
    [][/\ (lnClient # NoUri /\ isConnected) =>
             (lnClient' = lnClient /\ isConnected')
       /\ (lnClient # NoUri /\ payPc = "getInfo") => lnClient' = lnClient]_vars

----------------------------------------------------------------------------
(* Properties of the Settlement Step's timer *)

\* C36: a timed-out Settlement Step cannot cancel the submitted payment:
\* when execute returns Fail on timeout the pay request stays with the rail,
\* which may still settle the invoice, and the call yields no second result:
\* the Fail stands and the preimage of the late payment does not reach the
\* caller.
C36_TimeoutLeavesPaymentInFlight ==
    [][/\ (payPc = "payInvoice" /\ payPc' = "done" /\ PayTimedOutResult(payResult')) =>
             PayRequest \in railInFlight'
       /\ (payPc = "done" /\ PayTimedOutResult(payResult) /\ payCall' = payCall) =>
             (payPc' = "done" /\ payResult' = payResult)]_vars

\* the only call timed out, and the rail settled its invoice afterwards
C36_Witness ==
    /\ payCall = 1
    /\ payPc = "done"
    /\ PayTimedOutResult(payResult)
    /\ payParams.paymentRequest.paymentHash \in railPaid
    /\ "preimage" \notin DOMAIN payResult

C38_DefaultTimeoutIs60 ==
    [][\A raw \in RawPayParams :
          (PayExecuteStart(ParsePayParams(raw)) /\ ~raw.timeoutSeconds.given) =>
              /\ payParams'.timeoutSeconds = 60
              /\ payPc' = "payInvoice" => PayDeadline' = payStartTime' + 60]_vars

\* execute is waiting for the rail under the default timer
C38_Witness ==
    /\ payPc = "payInvoice"
    /\ payParams.timeoutSeconds = 60
    /\ PayDeadline = payStartTime + 60
    /\ PayRequest \in railInFlight

----------------------------------------------------------------------------
(* Properties of verifyPreimage *)

\* the string is 64 characters, all of them hex digits
Is64CharHex(s) == StrLen(s) = 64 /\ ~s.has0x /\ s.hex

\* C40: verifyPreimage returns false whenever either argument is not exactly
\* 64 characters long or is not hexadecimal, and returns true for every pair
\* of 64-character hex strings, whether or not the second is the SHA-256 of
\* the first.
C40_VerifyPreimageIsFormatOnly ==
    verifyPc = "done" =>
        (verifyResult <=>
            (Is64CharHex(verifyArgs.preimage) /\ Is64CharHex(verifyArgs.expectedHash)))

\* verifyPreimage returned true for a 64-digit hash that is not the SHA-256
\* of the 64-digit preimage
C40_Witness ==
    /\ verifyPc = "done"
    /\ verifyResult
    /\ Is64CharHex(verifyArgs.preimage)
    /\ Is64CharHex(verifyArgs.expectedHash)
    /\ verifyArgs.expectedHash.val # Sha256(verifyArgs.preimage.val)

----------------------------------------------------------------------------
(* Properties of the Invoice Step's expiresAt *)

\* C39: a successful Invoice Commitment execute returns expiresAt = (clock
\* reading, in seconds, when the invoice was created) + expirySec, a value
\* between call start + expirySec and call end + expirySec.
C39_ExpiresAtIsCreationPlusExpiry ==
    [][(invPc # "done" /\ invPc' = "done" /\ invResult'.kind = "success") =>
          /\ invResult'.expiresAt = now + invParams.expirySec
          /\ invResult'.expiresAt >= invStartTime + invParams.expirySec
          /\ invResult'.expiresAt <= now' + invParams.expirySec]_vars

\* execute succeeded with an invoice created after the clock had moved on
\* from the reading at call start
C39_Witness ==
    /\ InvExecuteSucceeded
    /\ invResult.expiresAt > invStartTime + invParams.expirySec
    /\ invResult.expiresAt <= now + invParams.expirySec

====
